---------------------------- MODULE Spec2Model ----------------------------
(***************************************************************************)
(* Ground-plane import pipeline of scripts/gnd_importer:                    *)
(*   GeometryParser (geometry_parser.py), GNDValidator (gnd_validator.py)   *)
(*   and GNDLoader (gnd_loader.py).                                         *)
(*                                                                          *)
(* Numbers.  Every coordinate of a file is an exact multiple of 1/res mm,   *)
(* and is held as that integer multiple ("quanta").  Two resolutions are    *)
(* used: Res quanta per mm for drawings at the scale of the antenna, and    *)
(* QuantaPerEps quanta per deduplication epsilon (1e-6 mm) for drawings at  *)
(* the scale of the tolerance.  On these inputs the code's double           *)
(* arithmetic (sums, differences, the one division of the ray cast, the     *)
(* quotient x / epsilon) orders and rounds values as exact rational         *)
(* arithmetic does, which is what the operators below compute.  Where the   *)
(* code halves a value (half_antenna) the operators work on doubled         *)
(* coordinates instead.                                                     *)
(***************************************************************************)
EXTENDS Integers, Sequences, FiniteSets, TLC

\* ------------------------------------------------------------ constants
\* gnd_validator.py
antenna_size == 25
step == 5
MaxZVariation == 5
ComplexEdgeCount == 100
\* geometry_parser.py: epsilon = 1e-6, i.e. EpsPerMm epsilons per mm
EpsPerMm == 1000000
\* geometry_parser.py: a CIRCLE becomes a polygon of this many segments
segments == 32

\* --------------------------------------------------------------- bounds
\* quanta per mm of the drawings at antenna scale
Res == 2
\* quanta per epsilon of the drawings at tolerance scale
QuantaPerEps == 5
\* largest x coordinate (quanta) of a tolerance-scale point
FineMax == 6
\* longest list of LINE entities / STL triangles of a free-form file
MaxLines == 2
\* number of positions tried per axis for the square and cross drawings
Positions == 2
\* calls of get_report() / is_valid() made on one geometry
MaxRuns == 2
\* quanta per mm of the drawings that hold a CIRCLE
CircleRes == 20

FineRes == QuantaPerEps * EpsPerMm

\* -------------------------------------------------------------- helpers
None == <<>>
Some(x) == <<x>>
IsSome(o) == Len(o) = 1
Get(o) == o[1]

Range(s) == {s[i] : i \in DOMAIN s}

SetMin(S) == CHOOSE m \in S : \A n \in S : m <= n
SetMax(S) == CHOOSE m \in S : \A n \in S : m >= n

Abs(n) == IF n < 0 THEN -n ELSE n

\* Python 3 round(n / d) for d > 0: nearest integer, ties to the even one
RoundHalfEven(n, d) ==
    LET q == n \div d
        r == n % d
    IN  IF 2 * r < d THEN q
        ELSE IF 2 * r > d THEN q + 1
        ELSE IF q % 2 = 0 THEN q ELSE q + 1

\* f"{x:.1f}" of x = n / res mm: the value in tenths of a mm
Fmt1(n, res) == RoundHalfEven(n * 10, res)

\* pathlib suffix .lower(), on a suffix held as a sequence of characters
LowerChar(c) ==
    CASE c = "D" -> "d" [] c = "X" -> "x" [] c = "F" -> "f"
      [] c = "S" -> "s" [] c = "T" -> "t" [] c = "L" -> "l"
      [] c = "E" -> "e" [] c = "P" -> "p" [] c = "V" -> "v"
      [] c = "B" -> "b" [] OTHER -> c
LowerIdentity(s) == s
Lower(s) == [i \in DOMAIN s |-> LowerChar(s[i])]

\* ----------------------------------------------------------- Geometry
\* class Geometry: vertices, faces, edges, metadata, created empty
EmptyGeometry == [vertices |-> <<>>, faces |-> <<>>, edges |-> <<>>,
                  metadata |-> <<>>]

\* ------------------------------------------------- _parse_dxf.add_vertex
\* round(c / epsilon) for a coordinate of c quanta at res quanta per mm.
\* The code multiplies the rounded integer by epsilon again; distinct
\* integers give distinct products, so the integer triple is the key.
Snap(c, res) == RoundHalfEven(c * EpsPerMm, res)

DxfKeyNoZ(p, res) == <<Snap(p[1], res), Snap(p[2], res), 0>>
DxfKey(p, res) == <<Snap(p[1], res), Snap(p[2], res), Snap(p[3], res)>>

AddVertexOffByOne(st, key, p) ==
    IF key \notin DOMAIN st.vertex_map
    THEN [g |-> [st.g EXCEPT !.vertices = Append(@, p)],
          vertex_map |-> (key :> Len(st.g.vertices) + 1) @@ st.vertex_map,
          idx |-> Len(st.g.vertices) + 1,
          calls |-> Append(st.calls, [p |-> p, idx |-> Len(st.g.vertices) + 1])]
    ELSE [st EXCEPT !.idx = st.vertex_map[key],
                    !.calls = Append(@, [p |-> p, idx |-> st.vertex_map[key]])]

\* the parser's local state: the geometry being built, the vertex map and
\* the index the last add_vertex returned
AddVertex(st, key, p) ==
    IF key \notin DOMAIN st.vertex_map
    THEN [g |-> [st.g EXCEPT !.vertices = Append(@, p)],
          vertex_map |-> (key :> Len(st.g.vertices)) @@ st.vertex_map,
          idx |-> Len(st.g.vertices),
          calls |-> Append(st.calls, [p |-> p, idx |-> Len(st.g.vertices)])]
    ELSE [st EXCEPT !.idx = st.vertex_map[key],
                    !.calls = Append(@, [p |-> p, idx |-> st.vertex_map[key]])]


\* add_vertex applied to each point of a list in order (the list
\* comprehensions of lines 95, 106 and the loop of lines 115-117);
\* the result carries the indices returned, in order
RECURSIVE AddAll(_, _, _, _)
AddAll(st, pts, res, acc) ==
    IF pts = <<>> THEN [st |-> st, indices |-> acc]
    ELSE LET st1 == AddVertex(st, DxfKey(Head(pts), res), Head(pts))
         IN  AddAll(st1, Tail(pts), res, Append(acc, st1.idx))

\* edges [indices[i], indices[i+1]] for i in range(len(indices) - 1)
ChainEdges(indices) ==
    [i \in 1..(IF Len(indices) = 0 THEN 0 ELSE Len(indices) - 1)
        |-> <<indices[i], indices[i + 1]>>]

ClosingEdgeDropped(indices, closed) == <<>>

ClosingEdge(indices, closed) ==
    IF closed /\ Len(indices) > 0
    THEN << <<indices[Len(indices)], indices[1]>> >>
    ELSE <<>>

\* cos(2 pi i / segments) in units of 1 / CosScale, for the 32 angles of
\* a CIRCLE
CosScale == 100000
QuarterCos == <<100000, 98079, 92388, 83147, 70711, 55557, 38268, 19509, 0>>
Cos32(i) ==
    LET k == i % 32
    IN  IF k <= 8 THEN QuarterCos[k + 1]
        ELSE IF k <= 16 THEN -QuarterCos[16 - k + 1]
        ELSE IF k <= 24 THEN -QuarterCos[k - 16 + 1]
        ELSE QuarterCos[32 - k + 1]
Sin32(i) == Cos32(i + 24)

\* the points center + radius * (cos, sin) of a CIRCLE, each coordinate
\* taken to the nearest quantum of the file
CirclePoints(e) ==
    [i \in 1..segments |->
        <<e.pts[1][1] + RoundHalfEven(e.radius * Cos32(i - 1), CosScale),
          e.pts[1][2] + RoundHalfEven(e.radius * Sin32(i - 1), CosScale),
          e.pts[1][3]>>]

\* edges [indices[i], indices[(i + 1) % segments]] for i in range(segments)
LoopEdges(indices) ==
    [i \in 1..segments |-> <<indices[i], indices[(i % segments) + 1]>>]

\* the body of `for entity in msp` for one entity
DxfEntity(st, e, res) ==
    CASE e.type = "LINE" ->
           LET r == AddAll(st, e.pts, res, <<>>)
           IN  [r.st EXCEPT !.g.edges =
                    Append(@, <<r.indices[1], r.indices[2]>>)]
      [] e.type = "LWPOLYLINE" ->
           \* LWPOLYLINE points are planar: (p[0], p[1], 0)
           LET flat == [i \in DOMAIN e.pts |-> <<e.pts[i][1], e.pts[i][2], 0>>]
               r == AddAll(st, flat, res, <<>>)
           IN  [r.st EXCEPT !.g.edges =
                    @ \o ChainEdges(r.indices) \o ClosingEdge(r.indices, e.closed)]
      [] e.type = "POLYLINE" ->
           LET r == AddAll(st, e.pts, res, <<>>)
           IN  [r.st EXCEPT !.g.edges =
                    @ \o ChainEdges(r.indices) \o ClosingEdge(r.indices, e.closed)]
      [] e.type = "3DFACE" ->
           LET r == AddAll(st, e.pts, res, <<>>)
           IN  [r.st EXCEPT !.g.faces = Append(@, r.indices)]
      [] e.type = "CIRCLE" ->
           LET r == AddAll(st, CirclePoints(e), res, <<>>)
           IN  [r.st EXCEPT !.g.edges = @ \o LoopEdges(r.indices)]
      [] OTHER -> st

Meta(k, s, n) == [k |-> k, s |-> s, n |-> n]
DxfMetadata(file) ==
    << Meta("units", "mm", 0), Meta("source", "DXF", 0),
       Meta("layer_count", "", file.layers),
       Meta("entity_count", "", Len(file.entities)) >>

\* ---------------------------------------------------------- _parse_stl
\* one triangle: each vertex keyed by its exact coordinates
StlAddVertex(st, p) ==
    IF p \notin DOMAIN st.vertex_map
    THEN [g |-> [st.g EXCEPT !.vertices = Append(@, p)],
          vertex_map |-> (p :> Len(st.g.vertices)) @@ st.vertex_map,
          idx |-> Len(st.g.vertices),
          calls |-> Append(st.calls, [p |-> p, idx |-> Len(st.g.vertices)])]
    ELSE [st EXCEPT !.idx = st.vertex_map[p],
                    !.calls = Append(@, [p |-> p, idx |-> st.vertex_map[p]])]

RECURSIVE StlAddAll(_, _, _)
StlAddAll(st, pts, acc) ==
    IF pts = <<>> THEN [st |-> st, indices |-> acc]
    ELSE LET st1 == StlAddVertex(st, Head(pts))
         IN  StlAddAll(st1, Tail(pts), Append(acc, st1.idx))

StlTriangle(st, tri) ==
    LET r == StlAddAll(st, tri.pts, <<>>)
    IN  [r.st EXCEPT !.g.faces = Append(@, r.indices)]

StlMetadata(file, g) ==
    << Meta("units", "mm", 0), Meta("source", "STL", 0),
       Meta("triangle_count", "", Len(file.entities)),
       Meta("unique_vertices", "", Len(g.vertices)) >>

\* ----------------------------------------------------- _parse_vbscript
VbsMetadata(file) ==
    << Meta("source", "HFSS_VBScript", 0),
       Meta("script_content", file.content, 0),
       Meta("file_path", file.name, 0) >>


\* -------------------------------------------------------- GNDValidator
\* A message is a record: its fixed text and the numbers formatted into it.
Msg(text, args) == [text |-> text, args |-> args, chars |-> <<>>]

EmptyError == Msg("Geometry is empty (no vertices found)", <<>>)
TooSmallError(width, height, res) ==
    Msg("Ground plane bounding box is too small",
        <<Fmt1(width, res), Fmt1(height, res), antenna_size, antenna_size>>)
NoFitError(width, height, res) ==
    Msg("Ground plane cannot accommodate the antenna",
        <<antenna_size, antenna_size, Fmt1(width, res), Fmt1(height, res)>>)
ZVariationSuggestion(z_variation, res) ==
    Msg("Geometry has significant Z-axis variation",
        <<RoundHalfEven(z_variation * 100, res)>>)
NoConnectivityWarning == Msg("No edges or faces defined in geometry", <<>>)
OpenBoundaryWarning(n) == Msg("Geometry has open boundary vertices", <<n>>)
ComplexSuggestion == Msg("Complex geometry detected", <<>>)

\* what a check leaves behind: the three lists, and whether it raised
Lists(errors, warnings, suggestions, raised) ==
    [errors |-> errors, warnings |-> warnings, suggestions |-> suggestions,
     raised |-> raised]

\* _check_empty_geometry
CheckEmptyGeometryAsWarning(geom, l) ==
    IF Len(geom.vertices) = 0
    THEN [l EXCEPT !.warnings = Append(@, EmptyError)]
    ELSE l

CheckEmptyGeometry(geom, l) ==
    IF Len(geom.vertices) = 0
    THEN [l EXCEPT !.errors = Append(@, EmptyError)]
    ELSE l

\* vertices[i] of a 0-based index i
Vertex(geom, i) == geom.vertices[i + 1]

\* _point_in_polygon, for the point (px2 / 2, py2 / 2) in quanta.
\* An edge toggles `inside` when exactly one endpoint is above the point
\* and px < x1 + (x2 - x1) * (py - y1) / (y2 - y1), compared here after
\* multiplying by 2 * (y2 - y1).
EdgeCrosses(geom, edge, px2, py2) ==
    /\ Len(edge) >= 2
    /\ edge[1] < Len(geom.vertices)
    /\ edge[2] < Len(geom.vertices)
    /\ LET x1 == Vertex(geom, edge[1])[1]
           y1 == Vertex(geom, edge[1])[2]
           x2 == Vertex(geom, edge[2])[1]
           y2 == Vertex(geom, edge[2])[2]
       IN  /\ (2 * y1 > py2) # (2 * y2 > py2)
           /\ IF y2 > y1
              THEN (px2 - 2 * x1) * (y2 - y1) < (x2 - x1) * (py2 - 2 * y1)
              ELSE (px2 - 2 * x1) * (y2 - y1) > (x2 - x1) * (py2 - 2 * y1)

PointInPolygon(geom, px2, py2) ==
    IF Len(geom.edges) = 0 THEN TRUE
    ELSE Cardinality({i \in DOMAIN geom.edges :
                        EdgeCrosses(geom, geom.edges[i], px2, py2)}) % 2 = 1

\* the five test points of a candidate centre (x2 / 2, y2 / 2), doubled;
\* a is the antenna side in quanta, so half_antenna doubled
TestPointsFullSide(x2, y2, a) ==
    << <<x2, y2>>, <<x2 - 2 * a, y2 - 2 * a>>, <<x2 + 2 * a, y2 - 2 * a>>,
       <<x2 - 2 * a, y2 + 2 * a>>, <<x2 + 2 * a, y2 + 2 * a>> >>
TestPoints(x2, y2, a) ==
    << <<x2, y2>>, <<x2 - a, y2 - a>>, <<x2 + a, y2 - a>>,
       <<x2 - a, y2 + a>>, <<x2 + a, y2 + a>> >>

CandidateFitsCentreOnly(geom, x2, y2, a) == PointInPolygon(geom, x2, y2)
CandidateFits(geom, x2, y2, a) ==
    \A k \in 1..5 :
        PointInPolygon(geom, TestPoints(x2, y2, a)[k][1], TestPoints(x2, y2, a)[k][2])

\* _test_antenna_fit: the inner and the outer while loop, on doubled
\* coordinates: x <= max_x - half_antenna is x2 <= 2 * max_x - a
RECURSIVE ScanRow(_, _, _, _, _, _)
ScanRow(geom, x2, y2, max_x, a, s2) ==
    IF ~(x2 <= 2 * max_x - a) THEN FALSE
    ELSE IF CandidateFits(geom, x2, y2, a) THEN TRUE
    ELSE ScanRow(geom, x2 + s2, y2, max_x, a, s2)

RECURSIVE ScanRows(_, _, _, _, _, _, _)
ScanRows(geom, y2, min_x, max_x, max_y, a, s2) ==
    IF ~(y2 <= 2 * max_y - a) THEN FALSE
    ELSE IF ScanRow(geom, 2 * min_x + a, y2, max_x, a, s2) THEN TRUE
    ELSE ScanRows(geom, y2 + s2, min_x, max_x, max_y, a, s2)

TestAntennaFitEveryOther(geom, res, min_x, max_x, min_y, max_y) ==
    ScanRows(geom, 2 * min_y + antenna_size * res, min_x, max_x, max_y,
             antenna_size * res, 4 * step * res)
TestAntennaFit(geom, res, min_x, max_x, min_y, max_y) ==
    ScanRows(geom, 2 * min_y + antenna_size * res, min_x, max_x, max_y,
             antenna_size * res, 2 * step * res)

XCoords(geom) == {geom.vertices[i][1] : i \in DOMAIN geom.vertices}
YCoords(geom) == {geom.vertices[i][2] : i \in DOMAIN geom.vertices}
\* v[2] if len(v) > 2 else 0
ZCoords(geom) ==
    {IF Len(geom.vertices[i]) > 2 THEN geom.vertices[i][3] ELSE 0 :
        i \in DOMAIN geom.vertices}

Width(geom) == SetMax(XCoords(geom)) - SetMin(XCoords(geom))
Height(geom) == SetMax(YCoords(geom)) - SetMin(YCoords(geom))

\* _check_minimum_size after its guard: min() of an empty list and v[1] of
\* a one-component vertex raise
MinimumSizeFitAnyway(geom, res, l) ==
    IF Len(geom.vertices) = 0 \/ \E i \in DOMAIN geom.vertices : Len(geom.vertices[i]) < 2
    THEN [l EXCEPT !.raised = TRUE]
    ELSE LET a == antenna_size * res
             tooSmall == Width(geom) < a \/ Height(geom) < a
             l1 == IF tooSmall
                   THEN [l EXCEPT !.errors =
                            Append(@, TooSmallError(Width(geom), Height(geom), res))]
                   ELSE l
         IN  IF Len(geom.edges) > 0
                /\ ~TestAntennaFit(geom, res, SetMin(XCoords(geom)), SetMax(XCoords(geom)),
                                   SetMin(YCoords(geom)), SetMax(YCoords(geom)))
             THEN [l1 EXCEPT !.errors =
                      Append(@, NoFitError(Width(geom), Height(geom), res))]
             ELSE l1
MinimumSizeNoEdgesFails(geom, res, l) ==
    IF Len(geom.vertices) = 0 \/ \E i \in DOMAIN geom.vertices : Len(geom.vertices[i]) < 2
    THEN [l EXCEPT !.raised = TRUE]
    ELSE LET a == antenna_size * res
         IN  IF Width(geom) < a \/ Height(geom) < a
             THEN [l EXCEPT !.errors =
                      Append(@, TooSmallError(Width(geom), Height(geom), res))]
             ELSE IF Len(geom.edges) = 0
                     \/ ~TestAntennaFit(geom, res, SetMin(XCoords(geom)), SetMax(XCoords(geom)),
                                        SetMin(YCoords(geom)), SetMax(YCoords(geom)))
             THEN [l EXCEPT !.errors =
                      Append(@, NoFitError(Width(geom), Height(geom), res))]
             ELSE l
MinimumSizeBody(geom, res, l) ==
    IF Len(geom.vertices) = 0 \/ \E i \in DOMAIN geom.vertices : Len(geom.vertices[i]) < 2
    THEN [l EXCEPT !.raised = TRUE]
    ELSE LET a == antenna_size * res
         IN  IF Width(geom) < a \/ Height(geom) < a
             THEN [l EXCEPT !.errors =
                      Append(@, TooSmallError(Width(geom), Height(geom), res))]
             ELSE IF Len(geom.edges) > 0
                     /\ ~TestAntennaFit(geom, res, SetMin(XCoords(geom)), SetMax(XCoords(geom)),
                                        SetMin(YCoords(geom)), SetMax(YCoords(geom)))
             THEN [l EXCEPT !.errors =
                      Append(@, NoFitError(Width(geom), Height(geom), res))]
             ELSE l

\* _check_minimum_size
CheckMinimumSizeNoGuard(geom, res, l) == MinimumSizeBody(geom, res, l)
CheckMinimumSize(geom, res, l) ==
    IF Len(geom.vertices) = 0 THEN l
    ELSE MinimumSizeBody(geom, res, l)

\* _check_planar_geometry
CheckPlanarGeometry(geom, res, l) ==
    IF Len(geom.vertices) = 0 THEN l
    ELSE LET z_variation == SetMax(ZCoords(geom)) - SetMin(ZCoords(geom))
         IN  IF z_variation > MaxZVariation * res
             THEN [l EXCEPT !.suggestions =
                      Append(@, ZVariationSuggestion(z_variation, res))]
             ELSE l

\* edge_count[v]: how many edge endpoints are vertex index v
EdgeCount(geom, v) ==
    Cardinality({ik \in {<<i, k>> : i \in DOMAIN geom.edges, k \in 1..2} :
                    /\ ik[2] <= Len(geom.edges[ik[1]])
                    /\ geom.edges[ik[1]][ik[2]] = v})
Touched(geom) ==
    UNION {Range(geom.edges[i]) : i \in DOMAIN geom.edges}
OpenVertices(geom) == {v \in Touched(geom) : EdgeCount(geom, v) % 2 # 0}

\* _check_closed_boundaries
CheckClosedAsError(geom, l) ==
    IF Len(geom.edges) = 0
    THEN IF Len(geom.faces) > 0 THEN l
         ELSE [l EXCEPT !.warnings = Append(@, NoConnectivityWarning)]
    ELSE IF Cardinality(OpenVertices(geom)) > 2
         THEN [l EXCEPT !.errors =
                  Append(@, OpenBoundaryWarning(Cardinality(OpenVertices(geom))))]
         ELSE l
CheckClosedMoreThanOne(geom, l) ==
    IF Len(geom.edges) = 0
    THEN IF Len(geom.faces) > 0 THEN l
         ELSE [l EXCEPT !.warnings = Append(@, NoConnectivityWarning)]
    ELSE IF Cardinality(OpenVertices(geom)) > 1
         THEN [l EXCEPT !.warnings =
                  Append(@, OpenBoundaryWarning(Cardinality(OpenVertices(geom))))]
         ELSE l
CheckClosedBoundaries(geom, l) ==
    IF Len(geom.edges) = 0
    THEN IF Len(geom.faces) > 0 THEN l
         ELSE [l EXCEPT !.warnings = Append(@, NoConnectivityWarning)]
    ELSE IF Cardinality(OpenVertices(geom)) > 2
         THEN [l EXCEPT !.warnings =
                  Append(@, OpenBoundaryWarning(Cardinality(OpenVertices(geom))))]
         ELSE l

\* _check_self_intersections
CheckSelfIntersections(geom, l) ==
    IF Len(geom.edges) > ComplexEdgeCount
    THEN [l EXCEPT !.suggestions = Append(@, ComplexSuggestion)]
    ELSE l

\* ----------------------------------------------------------- GNDLoader
BoundsCentreFromSize(vertices) ==
    LET geom == [vertices |-> vertices]
        xs == XCoords(geom)
        ys == YCoords(geom)
        zs == ZCoords(geom)
    IN  [min_x |-> SetMin(xs), max_x |-> SetMax(xs),
         min_y |-> SetMin(ys), max_y |-> SetMax(ys),
         min_z |-> SetMin(zs), max_z |-> SetMax(zs),
         width |-> SetMax(xs) - SetMin(xs),
         height |-> SetMax(ys) - SetMin(ys),
         depth |-> SetMax(zs) - SetMin(zs),
         center2 |-> <<SetMax(xs) - SetMin(xs), SetMax(ys) - SetMin(ys),
                       SetMax(zs) - SetMin(zs)>>]

\* calculate_bounds: None for no vertices, else the box in quanta, the
\* centre doubled (its coordinates are (min + max) / 2)
Bounds(vertices) ==
    LET geom == [vertices |-> vertices]
        xs == XCoords(geom)
        ys == YCoords(geom)
        zs == ZCoords(geom)
    IN  [min_x |-> SetMin(xs), max_x |-> SetMax(xs),
         min_y |-> SetMin(ys), max_y |-> SetMax(ys),
         min_z |-> SetMin(zs), max_z |-> SetMax(zs),
         width |-> SetMax(xs) - SetMin(xs),
         height |-> SetMax(ys) - SetMin(ys),
         depth |-> SetMax(zs) - SetMin(zs),
         center2 |-> <<SetMin(xs) + SetMax(xs), SetMin(ys) + SetMax(ys),
                       SetMin(zs) + SetMax(zs)>>]

CalculateBounds(vertices) ==
    IF Len(vertices) = 0 THEN [raised |-> FALSE, value |-> None]
    ELSE IF \E i \in DOMAIN vertices : Len(vertices[i]) < 2
         THEN [raised |-> TRUE, value |-> None]
         ELSE [raised |-> FALSE, value |-> Some(Bounds(vertices))]

\* ', '.join(errors): the strings with the separator between them
Separator == Msg(", ", <<>>)
RECURSIVE Join(_)
Join(msgs) ==
    IF Len(msgs) = 0 THEN <<>>
    ELSE IF Len(msgs) = 1 THEN msgs
    ELSE <<Head(msgs), Separator>> \o Join(Tail(msgs))

\* ---------------------------------------------------------------- inputs
\* A file: its name's suffix (a sequence of characters), whether it can be
\* opened and read as its format, the resolution of its coordinates, and
\* its drawing entities (DXF), triangles (STL) or script text (VBS).
File(suffix, readable, res, entities) ==
    [suffix |-> suffix, readable |-> readable, res |-> res, layers |-> 1,
     entities |-> entities, content |-> "", name |-> "gnd"]

Entity(type, pts, closed) == [type |-> type, pts |-> pts, closed |-> closed]
Line(p, q) == Entity("LINE", <<p, q>>, FALSE)

DXF == <<".", "d", "x", "f">>
STL == <<".", "s", "t", "l">>
VBS == <<".", "v", "b", "s">>

\* offsets (quanta) of the drawings' lower-left corner, per axis
Offset(k) == CASE k = 1 -> 0 [] k = 2 -> -15 [] k = 3 -> 7 [] OTHER -> 10 * k
Offsets == {Offset(k) : k \in 1..Positions}

\* side lengths in mm: below, at and above the antenna side (two of them)
Sides == {20, antenna_size, 30, 40}

\* a rectangle drawn as four LINE entities, each in either direction
Flip(e, b) == IF b THEN Line(e.pts[2], e.pts[1]) ELSE e
RectLines(ox, oy, w, h, dirs) ==
    LET c1 == <<ox, oy, 0>>
        c2 == <<ox + w, oy, 0>>
        c3 == <<ox + w, oy + h, 0>>
        c4 == <<ox, oy + h, 0>>
    IN  << Flip(Line(c1, c2), dirs[1]), Flip(Line(c2, c3), dirs[2]),
           Flip(Line(c3, c4), dirs[3]), Flip(Line(c4, c1), dirs[4]) >>

RectLineFiles ==
    {File(DXF, TRUE, Res, RectLines(ox, oy, w * Res, h * Res, dirs)) :
        ox \in Offsets, oy \in Offsets, w \in Sides, h \in Sides,
        dirs \in [1..4 -> BOOLEAN]}

Reverse(s) == [i \in DOMAIN s |-> s[Len(s) + 1 - i]]

\* a rectangle drawn as one polyline, closed or left open
RectPoints(ox, oy, w, h) ==
    << <<ox, oy, 0>>, <<ox + w, oy, 0>>, <<ox + w, oy + h, 0>>, <<ox, oy + h, 0>> >>

RectPolylineFiles ==
    {File(DXF, TRUE, Res,
          << Entity(kind, IF rev THEN Reverse(RectPoints(o, o, w * Res, h * Res))
                          ELSE RectPoints(o, o, w * Res, h * Res), closed) >>) :
        o \in Offsets, w \in Sides, h \in Sides, rev \in BOOLEAN,
        closed \in BOOLEAN, kind \in {"LWPOLYLINE", "POLYLINE"}}

\* a plus/cross: a horizontal bar of height ah at hy and a vertical bar of
\* width aw at vx, inside a box of bw by bh, as one closed 12-point polyline
CrossPoints(ox, oy, bw, bh, vx, aw, hy, ah) ==
    << <<ox + vx, oy, 0>>, <<ox + vx + aw, oy, 0>>,
       <<ox + vx + aw, oy + hy, 0>>, <<ox + bw, oy + hy, 0>>,
       <<ox + bw, oy + hy + ah, 0>>, <<ox + vx + aw, oy + hy + ah, 0>>,
       <<ox + vx + aw, oy + bh, 0>>, <<ox + vx, oy + bh, 0>>,
       <<ox + vx, oy + hy + ah, 0>>, <<ox, oy + hy + ah, 0>>,
       <<ox, oy + hy, 0>>, <<ox + vx, oy + hy, 0>> >>

\* arm widths (quanta): narrow, one quantum under the antenna side, the
\* antenna side, wider
ArmWidths == {10 * Res, antenna_size * Res - 1, antenna_size * Res, 30 * Res}
BoxSides == {40 * Res, 60 * Res}
\* the vertical arm starts centred or 5 mm in; the horizontal one is centred

CrossOutline(o, b, aw, ah, centred) ==
    CrossPoints(o, o, b, b, IF centred THEN (b - aw) \div 2 ELSE 5 * Res, aw,
                (b - ah) \div 2, ah)
CrossFiles ==
    {File(DXF, TRUE, Res,
          << Entity("LWPOLYLINE",
                    IF rev THEN Reverse(CrossOutline(o, b, aw, ah, centred))
                    ELSE CrossOutline(o, b, aw, ah, centred), TRUE) >>) :
        o \in Offsets, b \in BoxSides, rev \in BOOLEAN,
        aw \in ArmWidths, ah \in ArmWidths, centred \in BOOLEAN}

\* free-form drawings: up to MaxLines LINE entities between three points
SoupPts == { <<0, 0, 0>>, <<40 * Res, 0, 0>>, <<40 * Res, 40 * Res, 6 * Res>> }
SoupLines == {Line(p, q) : p \in SoupPts, q \in SoupPts}
SeqsUpTo(S, n) == UNION {[1..k -> S] : k \in 0..n}
SoupFiles == {File(DXF, TRUE, Res, es) : es \in SeqsUpTo(SoupLines, MaxLines)}

\* drawings without edges: faces, a one-point polyline, skipped entities
NoEdgeFiles ==
    {File(DXF, TRUE, Res, << Entity("3DFACE", <<p, q, r>>, FALSE) >>) :
        p \in SoupPts, q \in SoupPts, r \in SoupPts}
    \cup {File(DXF, TRUE, Res, << Entity("POLYLINE", <<p>>, c) >>) :
            p \in SoupPts, c \in BOOLEAN}
    \cup {File(DXF, TRUE, Res, << Entity("ELLIPSE", <<>>, FALSE) >>),
          File(DXF, TRUE, Res,
               << Entity("TEXT", <<>>, FALSE),
                  Entity("3DFACE", << <<0, 0, 0>>, <<25 * Res, 0, 0>>,
                                      <<0, 25 * Res, 0>> >>, FALSE) >>)}

\* a 40 mm square drawn 27 times over, as closed polylines: the vertices
\* merge and the edges do not, which gives more than ComplexEdgeCount edges
DenseFiles ==
    {File(DXF, TRUE, Res,
          [i \in 1..27 |-> Entity("LWPOLYLINE", RectPoints(0, 0, 40 * Res, 40 * Res), TRUE)])}

\* a closed 40 mm square with 6 mm of Z spread and two short horizontal
\* strokes inside it, which leave four vertices with one edge each; the
\* same with the strokes only; and two isolated points
Stroke(x, y, len) == Line(<<x, y, 0>>, <<x + len, y, 0>>)
MixedFiles ==
    {File(DXF, TRUE, Res,
          << Entity("POLYLINE",
                    << <<0, 0, 0>>, <<40 * Res, 0, 0>>, <<40 * Res, 40 * Res, z>>,
                       <<0, 40 * Res, z>> >>, closed),
             Stroke(5 * Res, 5 * Res, 5 * Res), Stroke(5 * Res, 30 * Res, 5 * Res) >>) :
        z \in {0, 6 * Res}, closed \in BOOLEAN}
    \cup {File(DXF, TRUE, Res,
               << Stroke(0, 0, 30 * Res), Stroke(0, 30 * Res, 30 * Res) >>),
          File(DXF, TRUE, Res,
               << Entity("POLYLINE", << <<0, 0, 0>> >>, FALSE),
                  Entity("LWPOLYLINE", << <<30 * Res, 30 * Res>> >>, FALSE) >>)}

\* drawings at the scale of the tolerance: one LINE between two points
\* whose coordinates are multiples of epsilon / QuantaPerEps
FinePts ==
    {<<x, y, z>> : x \in 0..FineMax, y \in {0, QuantaPerEps \div 2 + 1},
                   z \in {0, QuantaPerEps + 1}}
FineFiles ==
    {File(DXF, TRUE, FineRes, << Line(<<x, 0, 0>>, q) >>) :
        x \in 0..FineMax, q \in FinePts}

\* drawings with a CIRCLE: alone at a radius of 0, 10, 15 or 20 mm; with a
\* LINE from its first point; twice over; and at the scale of the
\* tolerance, where some of the 32 points share a key
Circle(c, r) ==
    [type |-> "CIRCLE", pts |-> <<c>>, closed |-> TRUE, radius |-> r]
CircleFiles ==
    {File(DXF, TRUE, CircleRes, << Circle(<<0, 0, z>>, r * CircleRes) >>) :
        r \in {0, 10, 15, 20}, z \in {0, CircleRes}}
    \cup {File(DXF, TRUE, CircleRes,
               << Line(<<20 * CircleRes, 0, 0>>, <<0, 0, 0>>),
                  Circle(<<0, 0, 0>>, 20 * CircleRes) >>),
          File(DXF, TRUE, CircleRes,
               << Circle(<<0, 0, 0>>, 20 * CircleRes),
                  Circle(<<0, 0, 0>>, 20 * CircleRes) >>)}
    \cup {File(DXF, TRUE, FineRes, << Circle(<<0, 0, 0>>, r) >>) :
            r \in 1..FineMax}

\* triangle meshes: up to MaxLines triangles
Triangles ==
    {Entity("TRI", <<p, q, r>>, FALSE) :
        p \in {<<0, 0, 0>>}, q \in SoupPts, r \in SoupPts}
StlFiles == {File(STL, TRUE, Res, es) : es \in SeqsUpTo(Triangles, MaxLines)}

\* scripts, the unimplemented format, unknown suffixes, files that cannot
\* be read, and the suffix in capitals
OtherFiles ==
    {File(sfx, TRUE, Res, <<>>) :
        sfx \in {VBS, <<".", "V", "B", "S">>, <<".", "s", "t", "e", "p">>,
                 <<".", "s", "t", "p">>, <<".", "S", "T", "P">>,
                 <<".", "t", "x", "t">>, <<>>, <<".", "d", "w", "g">>}}
    \cup {File(sfx, FALSE, Res, <<>>) :
            sfx \in {DXF, STL, VBS, <<".", "T", "X", "T">>, <<".", "S", "T", "E", "P">>}}
    \cup {File(<<".", "D", "X", "F">>, TRUE, Res,
               RectLines(0, 0, 40 * Res, 40 * Res, [i \in 1..4 |-> FALSE])),
          File(<<".", "S", "t", "l">>, TRUE, Res,
               << Entity("TRI", << <<0, 0, 0>>, <<40 * Res, 0, 0>>,
                                   <<0, 40 * Res, 0>> >>, FALSE) >>)}

\* HFSS scripts of different content: nothing, a comment, a script that
\* draws a 40 mm rectangle, text that is no script at all
Scripts ==
    {"", "' ground plane",
     "oEditor.CreateRectangle Array(\"XStart:=\", \"0mm\", \"Width:=\", \"40mm\", \"Height:=\", \"40mm\")",
     "0 SECTION 2 ENTITIES 0 LINE 10 0.0 20 0.0 11 40.0 21 0.0 0 EOF"}
ScriptFiles ==
    {[File(sfx, TRUE, Res, <<>>) EXCEPT !.content = c] :
        sfx \in {VBS, <<".", "V", "b", "s">>}, c \in Scripts}

\* drawings made of closed loops only, which share vertices: two
\* rectangles with a common corner or a common side, a triangle, a loop
\* that passes twice through one point, a loop of two points, a loop with
\* the same point twice in a row, a loop of one point, a loop with no
\* point, and a triangle through the first point of a circle
Loop(kind, pts) == Entity(kind, pts, TRUE)
LoopFiles ==
    {File(DXF, TRUE, Res,
          << Loop(kind, RectPoints(0, 0, 30 * Res, 30 * Res)),
             Loop("LWPOLYLINE", RectPoints(30 * Res, oy, 30 * Res, 30 * Res)) >>) :
        kind \in {"LWPOLYLINE", "POLYLINE"}, oy \in {0, 30 * Res}}
    \cup {File(DXF, TRUE, Res, << Loop(kind, pts) >>) :
            kind \in {"LWPOLYLINE", "POLYLINE"},
            pts \in { << <<0, 0, 0>>, <<40 * Res, 0, 0>>, <<0, 40 * Res, 0>> >>,
                      << <<0, 0, 0>>, <<40 * Res, 0, 0>>, <<20 * Res, 20 * Res, 0>>,
                         <<40 * Res, 40 * Res, 0>>, <<0, 40 * Res, 0>>,
                         <<20 * Res, 20 * Res, 0>> >>,
                      << <<0, 0, 0>>, <<40 * Res, 30 * Res, 0>> >>,
                      << <<0, 0, 0>>, <<0, 0, 0>>, <<40 * Res, 0, 0>>,
                         <<40 * Res, 40 * Res, 0>> >>,
                      << <<5 * Res, 5 * Res, 0>> >>,
                      << >> }}
    \cup {File(DXF, TRUE, CircleRes,
               << Circle(<<0, 0, 0>>, 20 * CircleRes),
                  Loop(kind, << <<20 * CircleRes, 0, 0>>, <<40 * CircleRes, 0, 0>>,
                                <<40 * CircleRes, 30 * CircleRes, 0>> >>),
                  Circle(<<40 * CircleRes, 0, 0>>, 20 * CircleRes) >>) :
            kind \in {"LWPOLYLINE", "POLYLINE"}}

Files ==
    RectLineFiles \cup RectPolylineFiles \cup CrossFiles \cup SoupFiles
      \cup NoEdgeFiles \cup DenseFiles \cup MixedFiles \cup FineFiles \cup CircleFiles
      \cup StlFiles \cup OtherFiles \cup ScriptFiles \cup LoopFiles

\* geometries a caller hands to GNDValidator directly
Geom(vertices, edges, faces) ==
    [vertices |-> vertices, faces |-> faces, edges |-> edges, metadata |-> <<>>]
DirectGeometries ==
    { Geom(<<>>, <<>>, <<>>),
      Geom(<<>>, << <<0, 1>> >>, <<>>),
      Geom(<<>>, <<>>, << <<0, 1, 2>> >>),
      Geom(<<>>, << <<0, 1>>, <<1, 2>> >>, << <<0, 1, 2>> >>),
      Geom(<< <<0, 0>>, <<40 * Res, 0>>, <<40 * Res, 40 * Res>>, <<0, 40 * Res>> >>,
           << <<0, 1>>, <<1, 2>>, <<2, 3>>, <<3, 0>> >>, <<>>),
      Geom(<< <<0, 0, 0>>, <<40 * Res, 0, 0>>, <<40 * Res, 40 * Res, 0>>,
              <<0, 40 * Res, 0>> >>,
           << <<0, 1>>, <<1, 2>>, <<2, 3>>, <<3, 0>>, <<3, 7>>, <<2>> >>, <<>>),
      Geom(<< <<0, 0, 0>>, <<40 * Res, 40 * Res, 0>> >>, <<>>, << <<0, 1, 5>> >>),
      Geom(<< <<0, 0, 0>>, <<5>> >>, << <<0, 1>> >>, <<>>) }

\* ---------------------------------------------------------------- state
VARIABLES
    pc,          \* where the caller stands: "new", the steps of load(), "direct"
    file,        \* GNDLoader.file_path: the file given, None before
    format,      \* GeometryParser.format: the lowered suffix
    next,        \* the parser's position in the file's entities (1-based)
    parser,      \* the parser's locals: geometry, vertex_map, add_vertex's calls
    geometry,    \* GNDLoader.geometry (None or a Geometry)
    bounds,      \* GNDLoader.bounds (None or a box)
    vgeom,       \* GNDValidator.geometry, None while no validator exists
    lists,       \* GNDValidator.errors / warnings / suggestions, and whether a check raised
    vpc,         \* the validator's position inside is_valid()
    report,      \* the dict get_report() returned: its 'valid'; its three
                 \* lists are the validator's own list objects (lines 193-195)
    result,      \* what load() returned, None if nothing
    failure,     \* the message of the exception load() raised, None if none
    bounds_call, \* what a later call of calculate_bounds() by the caller gave
    prev,        \* the geometry an earlier parse of the same file returned
    runs,        \* what each call of get_report() / is_valid() returned so
                 \* far on this geometry, as it stood at the return
    vid,         \* how many GNDValidator objects were made; the one in use
    vcall,       \* the method the caller called: "get_report" or "is_valid"
    inv,         \* two load() invocations side by side: the locals of each
    objs,        \* the objects those two invocations have created
    disk,        \* the project folder OptimizationDataManager works on
    mgr,         \* the OptimizationDataManager: where it stands, its results
    scan,        \* one call of _test_antenna_fit: its arguments and locals
    mesh         \* load() of an STL file whose coordinates are any float values

loader_vars == <<pc, file, format, next, parser, geometry, bounds, vgeom, lists,
                 vpc, report, result, failure, bounds_call, prev, runs, vid, vcall>>
pair_vars == <<inv, objs>>
manager_vars == <<disk, mgr>>
scan_vars == <<scan>>
mesh_vars == <<mesh>>
vars == <<loader_vars, pair_vars, manager_vars, scan_vars, mesh_vars>>

NewParser == [g |-> EmptyGeometry, vertex_map |-> <<>>, idx |-> 0, calls |-> <<>>]
NoLists == Lists(<<>>, <<>>, <<>>, FALSE)

\* the resolution of the coordinates at hand
CurRes == IF IsSome(file) THEN Get(file).res ELSE Res

Init ==
    /\ pc = "new"
    /\ file = None
    /\ format = <<>>
    /\ next = 1
    /\ parser = NewParser
    /\ geometry = None
    /\ bounds = None
    /\ vgeom = None
    /\ lists = NoLists
    /\ vpc = "none"
    /\ report = None
    /\ result = None
    /\ failure = None
    /\ bounds_call = None
    /\ prev = None
    /\ runs = <<>>
    /\ vid = 0
    /\ vcall = "get_report"
    /\ inv = <<>>
    /\ objs = <<>>
    /\ disk = None
    /\ mgr = None
    /\ scan = None
    /\ mesh = None

\* GNDLoader.__init__ followed by the call of load(), GeometryParser.__init__
NewLoader(f) ==
    /\ pc = "new"
    /\ pc' = "parse"
    /\ file' = Some(f)
    /\ format' = Lower(f.suffix)
    /\ geometry' = None
    /\ bounds' = None
    /\ UNCHANGED <<next, parser, vgeom, lists, vpc, report, result, failure, bounds_call,
                   prev, runs, vid, vcall, pair_vars, manager_vars, scan_vars, mesh_vars>>

\* load()'s except clause: every exception is re-raised with this prefix
LoadFailure(inner) == <<Msg("Failed to load GND file: ", <<>>)>> \o inner

Raise(inner) ==
    /\ pc' = "failed"
    /\ failure' = Some(LoadFailure(inner))

Formats == {DXF, STL, VBS, <<".", "s", "t", "e", "p">>, <<".", "s", "t", "p">>}

\* parse(): the else branch
ParseUnsupported ==
    /\ pc = "parse"
    /\ format \notin Formats
    /\ Raise(<<[text |-> "Unsupported format: ", args |-> <<>>, chars |-> format]>>)
    /\ UNCHANGED <<file, format, next, parser, geometry, bounds, vgeom, lists, vpc,
                   report, result, bounds_call,
                   prev, runs, vid, vcall, pair_vars, manager_vars, scan_vars, mesh_vars>>

ParseStepReturnsEmpty ==
    /\ pc = "parse"
    /\ format \in {<<".", "s", "t", "e", "p">>, <<".", "s", "t", "p">>}
    /\ geometry' = Some(EmptyGeometry)
    /\ pc' = "parsed"
    /\ UNCHANGED <<file, format, next, parser, bounds, vgeom, lists, vpc, report,
                   result, failure, bounds_call, prev, runs, vid, vcall, pair_vars, manager_vars, scan_vars, mesh_vars>>

\* _parse_step
ParseStep ==
    /\ pc = "parse"
    /\ format \in {<<".", "s", "t", "e", "p">>, <<".", "s", "t", "p">>}
    /\ Raise(<<Msg("STEP parsing requires pythonOCC-core. Coming in future update.", <<>>)>>)
    /\ UNCHANGED <<file, format, next, parser, geometry, bounds, vgeom, lists, vpc,
                   report, result, bounds_call,
                   prev, runs, vid, vcall, pair_vars, manager_vars, scan_vars, mesh_vars>>

\* ezdxf.readfile / Mesh.from_file / open raise on a file they cannot read
ParseUnreadable ==
    /\ pc = "parse"
    /\ format \in {DXF, STL, VBS}
    /\ ~Get(file).readable
    /\ Raise(<<Msg("cannot read file", <<>>)>>)
    /\ UNCHANGED <<file, format, next, parser, geometry, bounds, vgeom, lists, vpc,
                   report, result, bounds_call,
                   prev, runs, vid, vcall, pair_vars, manager_vars, scan_vars, mesh_vars>>

DxfBeginKeepsMap ==
    /\ pc = "parse"
    /\ format = DXF
    /\ Get(file).readable
    /\ pc' = "dxf"
    /\ parser' = [parser EXCEPT !.g = EmptyGeometry]
    /\ next' = 1
    /\ UNCHANGED <<file, format, geometry, bounds, vgeom, lists, vpc, report, result,
                   failure, bounds_call, prev, runs, vid, vcall, pair_vars, manager_vars, scan_vars, mesh_vars>>

\* _parse_dxf up to the loop over the entities
DxfBegin ==
    /\ pc = "parse"
    /\ format = DXF
    /\ Get(file).readable
    /\ pc' = "dxf"
    /\ parser' = NewParser
    /\ next' = 1
    /\ UNCHANGED <<file, format, geometry, bounds, vgeom, lists, vpc, report, result,
                   failure, bounds_call,
                   prev, runs, vid, vcall, pair_vars, manager_vars, scan_vars, mesh_vars>>

\* one turn of `for entity in msp`
DxfStep ==
    /\ pc = "dxf"
    /\ next <= Len(Get(file).entities)
    /\ parser' = DxfEntity(parser, Get(file).entities[next], CurRes)
    /\ next' = next + 1
    /\ UNCHANGED <<pc, file, format, geometry, bounds, vgeom, lists, vpc, report,
                   result, failure, bounds_call,
                   prev, runs, vid, vcall, pair_vars, manager_vars, scan_vars, mesh_vars>>

\* the loop is over: metadata is set and load() stores the geometry
DxfEnd ==
    /\ pc = "dxf"
    /\ next > Len(Get(file).entities)
    /\ geometry' = Some([parser.g EXCEPT !.metadata = DxfMetadata(Get(file))])
    /\ pc' = "parsed"
    /\ UNCHANGED <<file, format, next, parser, bounds, vgeom, lists, vpc, report,
                   result, failure, bounds_call,
                   prev, runs, vid, vcall, pair_vars, manager_vars, scan_vars, mesh_vars>>

StlBegin ==
    /\ pc = "parse"
    /\ format = STL
    /\ Get(file).readable
    /\ pc' = "stl"
    /\ parser' = NewParser
    /\ next' = 1
    /\ UNCHANGED <<file, format, geometry, bounds, vgeom, lists, vpc, report, result,
                   failure, bounds_call,
                   prev, runs, vid, vcall, pair_vars, manager_vars, scan_vars, mesh_vars>>

StlStep ==
    /\ pc = "stl"
    /\ next <= Len(Get(file).entities)
    /\ parser' = StlTriangle(parser, Get(file).entities[next])
    /\ next' = next + 1
    /\ UNCHANGED <<pc, file, format, geometry, bounds, vgeom, lists, vpc, report,
                   result, failure, bounds_call,
                   prev, runs, vid, vcall, pair_vars, manager_vars, scan_vars, mesh_vars>>

StlEnd ==
    /\ pc = "stl"
    /\ next > Len(Get(file).entities)
    /\ geometry' = Some([parser.g EXCEPT !.metadata = StlMetadata(Get(file), parser.g)])
    /\ pc' = "parsed"
    /\ UNCHANGED <<file, format, next, parser, bounds, vgeom, lists, vpc, report,
                   result, failure, bounds_call,
                   prev, runs, vid, vcall, pair_vars, manager_vars, scan_vars, mesh_vars>>

\* _parse_vbscript: no vertices, edges or faces, the script kept as metadata
ParseVbs ==
    /\ pc = "parse"
    /\ format = VBS
    /\ Get(file).readable
    /\ geometry' = Some([EmptyGeometry EXCEPT !.metadata = VbsMetadata(Get(file))])
    /\ pc' = "parsed"
    /\ UNCHANGED <<file, format, next, parser, bounds, vgeom, lists, vpc, report,
                   result, failure, bounds_call,
                   prev, runs, vid, vcall, pair_vars, manager_vars, scan_vars, mesh_vars>>

\* load(): GNDValidator(self.geometry) and the call of get_report(),
\* which calls is_valid()
LoadValidate ==
    /\ pc = "parsed"
    /\ pc' = "validating"
    /\ vgeom' = geometry
    /\ lists' = NoLists
    /\ vpc' = "empty"
    /\ vid' = vid + 1
    /\ vcall' = "get_report"
    /\ UNCHANGED <<file, format, next, parser, geometry, bounds, report, result,
                   failure, bounds_call, prev, runs, pair_vars, manager_vars, scan_vars, mesh_vars>>

\* a caller builds a Geometry itself, constructs GNDValidator on it and
\* calls get_report()
DirectValidate(geom) ==
    /\ pc = "new"
    /\ pc' = "direct"
    /\ vgeom' = Some(geom)
    /\ lists' = NoLists
    /\ vpc' = "empty"
    /\ vid' = vid + 1
    /\ vcall' = "get_report"
    /\ UNCHANGED <<file, format, next, parser, geometry, bounds, report, result,
                   failure, bounds_call, prev, runs, pair_vars, manager_vars, scan_vars, mesh_vars>>

\* is_valid(), one check per step
VCheckEmpty ==
    /\ vpc = "empty"
    /\ lists' = CheckEmptyGeometry(Get(vgeom), lists)
    /\ vpc' = "minsize"
    /\ UNCHANGED <<pc, file, format, next, parser, geometry, bounds, vgeom, report,
                   result, failure, bounds_call,
                   prev, runs, vid, vcall, pair_vars, manager_vars, scan_vars, mesh_vars>>

VCheckMinimumSize ==
    /\ vpc = "minsize"
    /\ lists' = CheckMinimumSize(Get(vgeom), CurRes, lists)
    /\ vpc' = IF lists'.raised THEN "raised" ELSE "planar"
    /\ UNCHANGED <<pc, file, format, next, parser, geometry, bounds, vgeom, report,
                   result, failure, bounds_call,
                   prev, runs, vid, vcall, pair_vars, manager_vars, scan_vars, mesh_vars>>

VCheckPlanar ==
    /\ vpc = "planar"
    /\ lists' = CheckPlanarGeometry(Get(vgeom), CurRes, lists)
    /\ vpc' = "closed"
    /\ UNCHANGED <<pc, file, format, next, parser, geometry, bounds, vgeom, report,
                   result, failure, bounds_call,
                   prev, runs, vid, vcall, pair_vars, manager_vars, scan_vars, mesh_vars>>

VCheckClosedConsumesEdges ==
    /\ vpc = "closed"
    /\ lists' = CheckClosedBoundaries(Get(vgeom), lists)
    /\ vgeom' = Some([Get(vgeom) EXCEPT !.edges = <<>>])
    /\ vpc' = "selfint"
    /\ UNCHANGED <<pc, file, format, next, parser, geometry, bounds, report,
                   result, failure, bounds_call,
                   prev, runs, vid, vcall, pair_vars, manager_vars, scan_vars, mesh_vars>>

VCheckClosed ==
    /\ vpc = "closed"
    /\ lists' = CheckClosedBoundaries(Get(vgeom), lists)
    /\ vpc' = "selfint"
    /\ UNCHANGED <<pc, file, format, next, parser, geometry, bounds, vgeom, report,
                   result, failure, bounds_call,
                   prev, runs, vid, vcall, pair_vars, manager_vars, scan_vars, mesh_vars>>

VCheckSelfIntersections ==
    /\ vpc = "selfint"
    /\ lists' = CheckSelfIntersections(Get(vgeom), lists)
    /\ vpc' = "return"
    /\ UNCHANGED <<pc, file, format, next, parser, geometry, bounds, vgeom, report,
                   result, failure, bounds_call,
                   prev, runs, vid, vcall, pair_vars, manager_vars, scan_vars, mesh_vars>>

\* is_valid() returns len(self.errors) == 0 and get_report() its dict
IsValid(l) == Len(l.errors) = 0

\* what the caller holds when the call returns: the flag, and the three
\* lists as they stand at that moment
Returned(call, validator, l) ==
    [call |-> call, validator |-> validator, valid |-> IsValid(l),
     errors |-> l.errors, warnings |-> l.warnings, suggestions |-> l.suggestions]

VReport ==
    /\ vpc = "return"
    /\ report' = IF vcall = "get_report" THEN Some([valid |-> IsValid(lists)])
                 ELSE report
    /\ runs' = Append(runs, Returned(vcall, vid, lists))
    /\ vpc' = "done"
    /\ UNCHANGED <<pc, file, format, next, parser, geometry, bounds, vgeom, lists,
                   result, failure, bounds_call, prev, vid, vcall, pair_vars, manager_vars, scan_vars, mesh_vars>>

\* the report's lists are the validator's lists
ReportErrors == lists.errors
ReportWarnings == lists.warnings
ReportSuggestions == lists.suggestions

\* load(): raise ValueError("Invalid geometry: " + ', '.join(errors))
InvalidMessage(errors) == <<Msg("Invalid geometry: ", <<>>)>> \o Join(errors)

LoadRejectsNever(rep) == FALSE
LoadRejects(rep) == ~rep.valid

LoadInvalid ==
    /\ pc = "validating"
    /\ vpc = "done"
    /\ LoadRejects(Get(report))
    /\ Raise(InvalidMessage(ReportErrors))
    /\ UNCHANGED <<file, format, next, parser, geometry, bounds, vgeom, lists, vpc,
                   report, result, bounds_call,
                   prev, runs, vid, vcall, pair_vars, manager_vars, scan_vars, mesh_vars>>

\* load(): self.bounds = self.calculate_bounds()
LoadBounds ==
    /\ pc = "validating"
    /\ vpc = "done"
    /\ ~LoadRejects(Get(report))
    /\ ~CalculateBounds(Get(geometry).vertices).raised
    /\ bounds' = CalculateBounds(Get(geometry).vertices).value
    /\ pc' = "bounded"
    /\ UNCHANGED <<file, format, next, parser, geometry, vgeom, lists, vpc, report,
                   result, failure, bounds_call,
                   prev, runs, vid, vcall, pair_vars, manager_vars, scan_vars, mesh_vars>>

\* load(): the dict returned
LoadResult(g, b, fmt, rep) ==
    [geometry |-> g, bounds |-> b, format |-> fmt,
     vertex_count |-> Len(g.vertices), face_count |-> Len(g.faces),
     edge_count |-> Len(g.edges), validation |-> rep]

LoadReturn ==
    /\ pc = "bounded"
    /\ result' = Some(LoadResult(Get(geometry), bounds, format, Get(report)))
    /\ pc' = "returned"
    /\ UNCHANGED <<file, format, next, parser, geometry, bounds, vgeom, lists, vpc,
                   report, failure, bounds_call,
                   prev, runs, vid, vcall, pair_vars, manager_vars, scan_vars, mesh_vars>>

\* after load() the caller calls loader.calculate_bounds() itself;
\* with self.geometry still None the attribute access raises
CallCalculateBounds ==
    /\ pc \in {"failed", "returned"}
    /\ bounds_call = None
    /\ bounds_call' =
          IF IsSome(geometry) THEN Some(CalculateBounds(Get(geometry).vertices))
          ELSE Some([raised |-> TRUE, value |-> None])
    /\ UNCHANGED <<pc, file, format, next, parser, geometry, bounds, vgeom, lists,
                   vpc, report, result, failure,
                   prev, runs, vid, vcall, pair_vars, manager_vars, scan_vars, mesh_vars>>

Next ==
    \/ \E f \in Files : NewLoader(f)
    \/ ParseUnsupported
    \/ ParseStep
    \/ ParseUnreadable
    \/ DxfBegin
    \/ DxfStep
    \/ DxfEnd
    \/ StlBegin
    \/ StlStep
    \/ StlEnd
    \/ ParseVbs
    \/ LoadValidate
    \/ \E geom \in DirectGeometries : DirectValidate(geom)
    \/ VCheckEmpty
    \/ VCheckMinimumSize
    \/ VCheckPlanar
    \/ VCheckClosed
    \/ VCheckSelfIntersections
    \/ VReport
    \/ LoadInvalid
    \/ LoadBounds
    \/ LoadReturn
    \/ CallCalculateBounds

Spec == Init /\ [][Next]_vars

\* ------------------------------------------------- load() as one function
\* _parse_dxf / _parse_stl: the loop over all entities / triangles
RECURSIVE DxfAll(_, _, _)
DxfAll(st, es, res) ==
    IF es = <<>> THEN st ELSE DxfAll(DxfEntity(st, Head(es), res), Tail(es), res)
RECURSIVE StlAll(_, _)
StlAll(st, ts) ==
    IF ts = <<>> THEN st ELSE StlAll(StlTriangle(st, Head(ts)), Tail(ts))

\* GeometryParser.parse(): the exception it raises, or the Geometry
ParseError(f) ==
    LET fmt == Lower(f.suffix)
    IN  IF fmt \notin Formats
        THEN <<[text |-> "Unsupported format: ", args |-> <<>>, chars |-> fmt]>>
        ELSE IF fmt \in {<<".", "s", "t", "e", "p">>, <<".", "s", "t", "p">>}
        THEN <<Msg("STEP parsing requires pythonOCC-core. Coming in future update.", <<>>)>>
        ELSE IF ~f.readable THEN <<Msg("cannot read file", <<>>)>>
        ELSE <<>>
Parse(f) ==
    LET fmt == Lower(f.suffix)
    IN  IF fmt = DXF
        THEN [DxfAll(NewParser, f.entities, f.res).g EXCEPT !.metadata = DxfMetadata(f)]
        ELSE IF fmt = STL
        THEN LET g == StlAll(NewParser, f.entities).g
             IN  [g EXCEPT !.metadata = StlMetadata(f, g)]
        ELSE [EmptyGeometry EXCEPT !.metadata = VbsMetadata(f)]

\* is_valid(): check number k of the five, and all five in order
Check(k, geom, res, l) ==
    CASE k = 1 -> CheckEmptyGeometry(geom, l)
      [] k = 2 -> CheckMinimumSize(geom, res, l)
      [] k = 3 -> CheckPlanarGeometry(geom, res, l)
      [] k = 4 -> CheckClosedBoundaries(geom, l)
      [] OTHER -> CheckSelfIntersections(geom, l)
Checks == 5
RECURSIVE ChecksFrom(_, _, _, _)
ChecksFrom(k, geom, res, l) ==
    IF k > Checks \/ l.raised THEN l
    ELSE ChecksFrom(k + 1, geom, res, Check(k, geom, res, l))
Validate(geom, res) == ChecksFrom(1, geom, res, NoLists)

\* load(): what one invocation leaves behind when nothing else runs: the
\* exception or the result, the loader's geometry and bounds, and the
\* lists of the report
Outcome(failure_, result_, geometry_, bounds_, lists_) ==
    [failure |-> failure_, result |-> result_, geometry |-> geometry_,
     bounds |-> bounds_, lists |-> lists_]
Load(f) ==
    IF ParseError(f) # <<>>
    THEN Outcome(Some(LoadFailure(ParseError(f))), None, None, None, NoLists)
    ELSE LET g == Parse(f)
             l == Validate(g, f.res)
             rep == [valid |-> IsValid(l)]
             b == CalculateBounds(g.vertices).value
         IN  IF LoadRejects(rep)
             THEN Outcome(Some(LoadFailure(InvalidMessage(l.errors))), None,
                          Some(g), None, l)
             ELSE Outcome(None, Some(LoadResult(g, b, Lower(f.suffix), rep)),
                          Some(g), b, l)

\* ------------------------------------------------- the same work again
\* a second GNDLoader is made for the same file and load() called on it
LoadAgain ==
    /\ pc \in {"failed", "returned"}
    /\ IsSome(geometry)
    /\ prev = None
    /\ prev' = geometry
    /\ pc' = "parse"
    /\ geometry' = None
    /\ bounds' = None
    /\ result' = None
    /\ failure' = None
    /\ report' = None
    /\ bounds_call' = None
    /\ vgeom' = None
    /\ lists' = NoLists
    /\ vpc' = "none"
    /\ UNCHANGED <<file, format, next, parser, runs, vid, vcall, pair_vars, manager_vars, scan_vars, mesh_vars>>

\* the caller of a GNDValidator calls get_report() or is_valid() on it once
\* more: __init__ is not run again, the checks append to the same lists
CallAgain(method) ==
    /\ pc = "direct"
    /\ vpc = "done"
    /\ Len(runs) < MaxRuns
    /\ vpc' = "empty"
    /\ vcall' = method
    /\ UNCHANGED <<pc, file, format, next, parser, geometry, bounds, vgeom, lists,
                   report, result, failure, bounds_call, prev, runs, vid, pair_vars, manager_vars, scan_vars, mesh_vars>>

\* the caller makes a new GNDValidator on the same Geometry and calls
\* get_report() on it
ValidateAgain ==
    /\ pc = "direct"
    /\ vpc = "done"
    /\ Len(runs) < MaxRuns
    /\ lists' = NoLists
    /\ vpc' = "empty"
    /\ vid' = vid + 1
    /\ vcall' = "get_report"
    /\ UNCHANGED <<pc, file, format, next, parser, geometry, bounds, vgeom, report,
                   result, failure, bounds_call, prev, runs, pair_vars, manager_vars, scan_vars, mesh_vars>>

NextAgain ==
    \/ Next
    \/ LoadAgain
    \/ \E method \in {"get_report", "is_valid"} : CallAgain(method)
    \/ ValidateAgain

SpecAgain == Init /\ [][NextAgain]_vars

\* ------------------------------------------- two invocations side by side
\* The objects load() creates live in objs, and an invocation holds their
\* places in it: the parser's Geometry with its vertex_map (gref) and the
\* validator's lists (vref).  0 stands for no object.
Object(kind, st, l) == [kind |-> kind, st |-> st, l |-> l]
ParserObject(st) == Object("parser", st, NoLists)
ListsObject(l) == Object("lists", NewParser, l)

\* an object shared by all invocations: the one of its kind, once made
SharedObject(os, kind) ==
    IF \E k \in DOMAIN os : os[k].kind = kind
    THEN CHOOSE k \in DOMAIN os : os[k].kind = kind
    ELSE Len(os) + 1
\* Geometry(), vertex_map = {} and the lists of GNDValidator.__init__
\* are new objects each time
NewObject(os, kind) == Len(os) + 1

Put(os, ref, obj) ==
    IF ref = Len(os) + 1 THEN Append(os, obj) ELSE [os EXCEPT ![ref] = obj]

\* the files of the two invocations: drawings that share corner points,
\* a mesh, a script, the unimplemented format, a file that cannot be read
PairFiles ==
    {File(DXF, TRUE, Res, RectLines(0, 0, 40 * Res, 40 * Res, [i \in 1..4 |-> FALSE])),
     File(DXF, TRUE, Res,
          << Entity("LWPOLYLINE", RectPoints(0, 0, 20 * Res, 20 * Res), TRUE) >>),
     File(DXF, TRUE, Res,
          << Line(<<40 * Res, 0, 0>>, <<0, 0, 0>>),
             Line(<<0, 0, 0>>, <<40 * Res, 40 * Res, 6 * Res>>) >>),
     File(STL, TRUE, Res,
          << Entity("TRI", << <<0, 0, 0>>, <<40 * Res, 0, 0>>,
                              <<0, 40 * Res, 0>> >>, FALSE) >>),
     File(VBS, TRUE, Res, <<>>),
     File(<<".", "s", "t", "p">>, TRUE, Res, <<>>),
     File(DXF, FALSE, Res, <<>>)}

Invocation(f) ==
    [file |-> f, pc |-> "parse", next |-> 1, gref |-> 0, vref |-> 0, check |-> 1,
     bounds |-> None, result |-> None, failure |-> None]

\* two loaders are made, each for a file of its own, and load() is called
\* on both
PStart(a, b) ==
    /\ inv = <<>>
    /\ a # b
    /\ inv' = <<Invocation(a), Invocation(b)>>
    /\ objs' = <<>>
    /\ UNCHANGED <<loader_vars, manager_vars, scan_vars, mesh_vars>>

Fmt(i) == Lower(inv[i].file.suffix)
\* the Geometry invocation i holds
PGeometry(i) == objs[inv[i].gref].st.g

\* parse() raises: load() fails
PParseFails(i) ==
    /\ i \in DOMAIN inv
    /\ inv[i].pc = "parse"
    /\ ParseError(inv[i].file) # <<>>
    /\ inv' = [inv EXCEPT ![i].pc = "failed",
                          ![i].failure = Some(LoadFailure(ParseError(inv[i].file)))]
    /\ UNCHANGED <<objs, loader_vars, manager_vars, scan_vars, mesh_vars>>

\* the parser creates its Geometry (and for DXF and STL its vertex_map);
\* the VBScript parser returns it at once
PBegin(i) ==
    /\ i \in DOMAIN inv
    /\ inv[i].pc = "parse"
    /\ ParseError(inv[i].file) = <<>>
    /\ LET ref == NewObject(objs, "parser")
       IN  /\ objs' = Put(objs, ref,
                      ParserObject(IF Fmt(i) = VBS
                                   THEN [NewParser EXCEPT
                                           !.g.metadata = VbsMetadata(inv[i].file)]
                                   ELSE NewParser))
           /\ inv' = [inv EXCEPT ![i].gref = ref, ![i].next = 1,
                                 ![i].pc = CASE Fmt(i) = DXF -> "dxf"
                                             [] Fmt(i) = STL -> "stl"
                                             [] OTHER -> "parsed"]
    /\ UNCHANGED <<loader_vars, manager_vars, scan_vars, mesh_vars>>

\* one entity or triangle
PEntity(i) ==
    /\ i \in DOMAIN inv
    /\ inv[i].pc \in {"dxf", "stl"}
    /\ inv[i].next <= Len(inv[i].file.entities)
    /\ LET st == objs[inv[i].gref].st
           e == inv[i].file.entities[inv[i].next]
       IN  objs' = [objs EXCEPT ![inv[i].gref].st =
                       IF inv[i].pc = "dxf" THEN DxfEntity(st, e, inv[i].file.res)
                       ELSE StlTriangle(st, e)]
    /\ inv' = [inv EXCEPT ![i].next = @ + 1]
    /\ UNCHANGED <<loader_vars, manager_vars, scan_vars, mesh_vars>>

\* the metadata is set and the Geometry returned to load()
PEnd(i) ==
    /\ i \in DOMAIN inv
    /\ inv[i].pc \in {"dxf", "stl"}
    /\ inv[i].next > Len(inv[i].file.entities)
    /\ objs' = [objs EXCEPT ![inv[i].gref].st.g.metadata =
                   IF inv[i].pc = "dxf" THEN DxfMetadata(inv[i].file)
                   ELSE StlMetadata(inv[i].file, PGeometry(i))]
    /\ inv' = [inv EXCEPT ![i].pc = "parsed"]
    /\ UNCHANGED <<loader_vars, manager_vars, scan_vars, mesh_vars>>

\* GNDValidator(self.geometry)
PNewValidator(i) ==
    /\ i \in DOMAIN inv
    /\ inv[i].pc = "parsed"
    /\ LET ref == NewObject(objs, "lists")
       IN  /\ objs' = Put(objs, ref, ListsObject(NoLists))
           /\ inv' = [inv EXCEPT ![i].vref = ref, ![i].check = 1, ![i].pc = "checks"]
    /\ UNCHANGED <<loader_vars, manager_vars, scan_vars, mesh_vars>>

\* one of the five checks of is_valid()
PCheck(i) ==
    /\ i \in DOMAIN inv
    /\ inv[i].pc = "checks"
    /\ inv[i].check <= Checks
    /\ objs' = [objs EXCEPT ![inv[i].vref].l =
                   Check(inv[i].check, PGeometry(i), inv[i].file.res, @)]
    /\ inv' = [inv EXCEPT ![i].check = @ + 1]
    /\ UNCHANGED <<loader_vars, manager_vars, scan_vars, mesh_vars>>

\* get_report() returns and load() looks at 'valid'
PReport(i) ==
    /\ i \in DOMAIN inv
    /\ inv[i].pc = "checks"
    /\ inv[i].check > Checks
    /\ LET l == objs[inv[i].vref].l
       IN  inv' = IF LoadRejects([valid |-> IsValid(l)])
                  THEN [inv EXCEPT ![i].pc = "failed",
                          ![i].failure = Some(LoadFailure(InvalidMessage(l.errors)))]
                  ELSE [inv EXCEPT ![i].pc = "validated"]
    /\ UNCHANGED <<objs, loader_vars, manager_vars, scan_vars, mesh_vars>>

PBounds(i) ==
    /\ i \in DOMAIN inv
    /\ inv[i].pc = "validated"
    /\ inv' = [inv EXCEPT ![i].pc = "bounded",
                          ![i].bounds = CalculateBounds(PGeometry(i).vertices).value]
    /\ UNCHANGED <<objs, loader_vars, manager_vars, scan_vars, mesh_vars>>

PReturn(i) ==
    /\ i \in DOMAIN inv
    /\ inv[i].pc = "bounded"
    /\ inv' = [inv EXCEPT ![i].pc = "returned",
                 ![i].result = Some(LoadResult(PGeometry(i), inv[i].bounds, Fmt(i),
                                    [valid |-> IsValid(objs[inv[i].vref].l)]))]
    /\ UNCHANGED <<objs, loader_vars, manager_vars, scan_vars, mesh_vars>>

NextPair ==
    \/ \E a, b \in PairFiles : PStart(a, b)
    \/ \E i \in 1..2 :
          \/ PParseFails(i)
          \/ PBegin(i)
          \/ PEntity(i)
          \/ PEnd(i)
          \/ PNewValidator(i)
          \/ PCheck(i)
          \/ PReport(i)
          \/ PBounds(i)
          \/ PReturn(i)

SpecPair == Init /\ [][NextPair]_vars

\* ------------------------------------------- OptimizationDataManager
\* The project folder: whether Optimization exists, whether Function/HFSS
\* exists, the F_Model_Element files there are, and the backup folders.
\* A backup folder is backup_Optimization (slot 0), backup_Optimization_<date>
\* (slot 1) or backup_Optimization_<date>_<n> (slot n + 1); it holds a copy of
\* the Optimization tree, whole or in part, and file copies by name.
Path(dir, name) == [dir |-> dir, name |-> name]
RootM == Path("root", "F_Model_Element.m")
RootMBackup == Path("root", "F_Model_Element.m.backup")
RootMlx == Path("root", "F_Model_Element.mlx")
RootMlxBackup == Path("root", "F_Model_Element.mlx.backup")
HfssM == Path("hfss", "F_Model_Element.m")
HfssMlx == Path("hfss", "F_Model_Element.mlx")
HfssMBackup == Path("hfss", "F_Model_Element.m.backup_1")
HfssMlxBackup == Path("hfss", "F_Model_Element.mlx.backup_1")

\* the places find_fmodel_files looks at, in the order it looks
FModelCandidates ==
    <<RootM, RootMBackup, RootMlx, RootMlxBackup,
      HfssM, HfssMlx, HfssMBackup, HfssMlxBackup>>

Present(d, p) == p \in d.files /\ (p.dir = "hfss" => d.hfss)
find_fmodel_files(d) == SelectSeq(FModelCandidates, LAMBDA p : Present(d, p))

BackupFolder(slot, tree) == [slot |-> slot, tree |-> tree, copies |-> {}]
Slots(d) == {b.slot : b \in d.backups}
\* the base name if it is free, else the dated name, else the first free
\* counter
create_unique_backup_path(d) ==
    CHOOSE s \in 0..Cardinality(d.backups) :
        s \notin Slots(d) /\ \A t \in 0..(s - 1) : t \in Slots(d)

\* shutil.copy2 into the backup folder: a copy of the same name is replaced
CopyInto(b, p) ==
    [b EXCEPT !.copies = {c \in @ : c.name # p.name}
                         \cup {[name |-> p.name, from |-> p]}]

Disk(opt, hfss, files, slots) ==
    [opt |-> opt, hfss |-> hfss, files |-> files,
     backups |-> {BackupFolder(s, "old") : s \in slots}]

\* the calls made on one manager
MaxCalls == 2

Disks ==
    {Disk(opt, fs[1], fs[2], slots) :
        opt \in BOOLEAN,
        fs \in {<<FALSE, {}>>, <<FALSE, {RootM}>>, <<TRUE, {}>>,
                <<TRUE, {RootM, HfssM}>>,
                <<TRUE, {RootMlx, RootMlxBackup, HfssMBackup}>>},
        slots \in {{}, {0}, {0, 1}, {1}}}

NewResults ==
    [success |-> FALSE, message |-> "", action |-> "",
     optimization_exists |-> FALSE, backup_created |-> FALSE,
     optimization_removed |-> FALSE, fmodel_backup_created |-> FALSE,
     fmodel_removed |-> FALSE, backup_path |-> None, errors |-> <<>>,
     fmodel_backup_info |-> None, fmodel_removed_count |-> None,
     removed_items |-> None]

Failed(what) == [what |-> what]

\* the manager and the disk, once there are any
M == Get(mgr)
D == Get(disk)
ManagerAt(label) == IsSome(mgr) /\ M.pc = label

\* OptimizationDataManager(project_root)
NewManager(d) ==
    /\ mgr = None
    /\ scan = None
    /\ mesh = None
    /\ disk' = Some(d)
    /\ mgr' = Some([pc |-> "ready", results |-> NewResults, calls |-> 0,
                    entry |-> d, backup_success |-> None, todo |-> <<>>,
                    info |-> <<>>, removed_items |-> <<>>, count |-> 0,
                    returned |-> None])
    /\ UNCHANGED <<loader_vars, pair_vars, scan_vars, mesh_vars>>

\* backup_only() or backup_and_remove() is called
CallManager(action) ==
    /\ IsSome(mgr)
    /\ M.pc \in {"ready", "returned"}
    /\ M.calls < MaxCalls
    /\ mgr' = Some([M EXCEPT !.pc = "backup", !.calls = @ + 1, !.entry = D,
                             !.results.action = action,
                             !.backup_success = None, !.returned = None,
                             !.todo = <<>>, !.info = <<>>,
                             !.removed_items = <<>>, !.count = 0])
    /\ UNCHANGED <<disk, loader_vars, pair_vars, scan_vars, mesh_vars>>

\* backup_optimization_folder: there is no Optimization folder
BackupNothing ==
    /\ ManagerAt("backup")
    /\ ~D.opt
    /\ mgr' = Some([M EXCEPT !.pc = "after_backup",
                     !.results.optimization_exists = FALSE,
                     !.results.message =
                         "No optimization folder found - nothing to backup",
                     !.backup_success = Some(TRUE)])
    /\ UNCHANGED <<disk, loader_vars, pair_vars, scan_vars, mesh_vars>>

\* backup_optimization_folder: shutil.copytree into a new backup folder.
\* It succeeds, or raises with nothing or a part of the tree copied.
CopyTree(outcome) ==
    /\ ManagerAt("backup")
    /\ D.opt
    /\ LET slot == create_unique_backup_path(D)
           r == [M.results EXCEPT !.optimization_exists = TRUE,
                                  !.backup_path = Some(slot)]
       IN  CASE outcome = "copied" ->
                  /\ disk' = Some([D EXCEPT !.backups =
                                     @ \cup {BackupFolder(slot, "whole")}])
                  /\ mgr' = Some([M EXCEPT !.pc = "copy_files", !.results = r,
                                   !.todo = find_fmodel_files(D), !.info = <<>>])
             [] OTHER ->
                  /\ disk' = IF outcome = "raised_midway"
                             THEN Some([D EXCEPT !.backups =
                                         @ \cup {BackupFolder(slot, "part")}])
                             ELSE disk
                  /\ mgr' = Some([M EXCEPT !.pc = "after_backup",
                                   !.results = [r EXCEPT !.errors =
                                       Append(@, Failed("Failed to create backup"))],
                                   !.backup_success = Some(FALSE)])
    /\ UNCHANGED <<loader_vars, pair_vars, scan_vars, mesh_vars>>

\* shutil.copy2 of one F_Model_Element file; a failure is noted and passed
CopyFile(copied) ==
    /\ ManagerAt("copy_files")
    /\ M.todo # <<>>
    /\ LET p == Head(M.todo)
           slot == Get(M.results.backup_path)
       IN  IF copied
           THEN /\ disk' = Some([D EXCEPT !.backups =
                            {IF b.slot = slot THEN CopyInto(b, p) ELSE b : b \in @}])
                /\ mgr' = Some([M EXCEPT !.todo = Tail(@), !.info = Append(@, p)])
           ELSE /\ disk' = disk
                /\ mgr' = Some([M EXCEPT !.todo = Tail(@),
                                 !.results.errors =
                                     Append(@, Failed("Failed to backup"))])
    /\ UNCHANGED <<loader_vars, pair_vars, scan_vars, mesh_vars>>

\* backup_optimization_folder returns True
BackupDone ==
    /\ ManagerAt("copy_files")
    /\ M.todo = <<>>
    /\ mgr' = Some([M EXCEPT !.pc = "after_backup",
                     !.results.fmodel_backup_created =
                         IF M.info # <<>> THEN TRUE ELSE @,
                     !.results.fmodel_backup_info =
                         IF M.info # <<>> THEN Some(M.info) ELSE @,
                     !.results.backup_created = TRUE,
                     !.backup_success = Some(TRUE)])
    /\ UNCHANGED <<disk, loader_vars, pair_vars, scan_vars, mesh_vars>>

IsBackupOnly == M.results.action = "backup-only"
IsBackupAndRemove == M.results.action = "backup-and-remove"

\* backup_only ends
BackupOnlyReturns ==
    /\ ManagerAt("after_backup")
    /\ IsBackupOnly
    /\ LET success == Get(M.backup_success)
       IN  mgr' = Some([M EXCEPT !.pc = "returned",
                   !.results.message =
                       IF success /\ M.results.optimization_exists
                       THEN "Optimization data backed up successfully"
                       ELSE IF success
                            THEN "No optimization data found to backup"
                            ELSE "Failed to backup optimization data",
                   !.results.success = success,
                   !.returned = Some(success)])
    /\ UNCHANGED <<disk, loader_vars, pair_vars, scan_vars, mesh_vars>>

\* backup_and_remove continues though the backup failed
AbortRemovalSkipped ==
    /\ ManagerAt("after_backup")
    /\ IsBackupAndRemove
    /\ ~Get(M.backup_success)
    /\ mgr' = Some([M EXCEPT !.pc = "remove"])
    /\ UNCHANGED <<disk, loader_vars, pair_vars, scan_vars, mesh_vars>>

\* backup_and_remove: the backup failed, nothing is removed
AbortRemoval ==
    /\ ManagerAt("after_backup")
    /\ IsBackupAndRemove
    /\ ~Get(M.backup_success)
    /\ mgr' = Some([M EXCEPT !.pc = "returned",
                     !.results.message =
                         "Failed to create backup - aborting removal for safety",
                     !.results.success = FALSE,
                     !.returned = Some(FALSE)])
    /\ UNCHANGED <<disk, loader_vars, pair_vars, scan_vars, mesh_vars>>

\* backup_and_remove: no Optimization folder, the F_Model_Element files are
\* removed all the same
CleanStart ==
    /\ ManagerAt("after_backup")
    /\ IsBackupAndRemove
    /\ Get(M.backup_success)
    /\ ~M.results.optimization_exists
    /\ mgr' = Some([M EXCEPT !.pc = "clean_start",
                     !.todo = find_fmodel_files(D), !.count = 0])
    /\ UNCHANGED <<disk, loader_vars, pair_vars, scan_vars, mesh_vars>>

\* backup_and_remove goes on to remove_optimization_data
RemoveData ==
    /\ ManagerAt("after_backup")
    /\ IsBackupAndRemove
    /\ Get(M.backup_success)
    /\ M.results.optimization_exists
    /\ mgr' = Some([M EXCEPT !.pc = "remove"])
    /\ UNCHANGED <<disk, loader_vars, pair_vars, scan_vars, mesh_vars>>

\* remove_optimization_data: shutil.rmtree of the Optimization folder, if
\* there is one; it may raise
RemoveTree(removed) ==
    /\ ManagerAt("remove")
    /\ LET r == IF ~D.opt THEN M.results
                ELSE IF removed
                     THEN [M.results EXCEPT !.optimization_removed = TRUE]
                     ELSE [M.results EXCEPT !.errors =
                             Append(@, Failed("Failed to remove optimization folder"))]
           d == IF D.opt /\ removed THEN [D EXCEPT !.opt = FALSE] ELSE D
       IN  /\ disk' = Some(d)
           /\ mgr' = Some([M EXCEPT !.pc = "remove_files", !.results = r,
                            !.removed_items =
                                IF D.opt /\ removed THEN <<"Optimization">> ELSE <<>>,
                            !.todo = find_fmodel_files(d), !.count = 0])
    /\ UNCHANGED <<loader_vars, pair_vars, scan_vars, mesh_vars>>

\* fmodel_file.unlink() in either removal loop; a failure is noted and passed
Unlink(removed) ==
    /\ IsSome(mgr)
    /\ M.pc \in {"clean_start", "remove_files"}
    /\ M.todo # <<>>
    /\ LET p == Head(M.todo)
       IN  IF removed
           THEN /\ disk' = Some([D EXCEPT !.files = @ \ {p}])
                /\ mgr' = Some([M EXCEPT !.todo = Tail(@), !.count = @ + 1,
                                 !.removed_items =
                                     IF M.pc = "remove_files" THEN Append(@, p) ELSE @])
           ELSE /\ disk' = disk
                /\ mgr' = Some([M EXCEPT !.todo = Tail(@),
                                 !.results.errors =
                                     Append(@, Failed("Failed to remove"))])
    /\ UNCHANGED <<loader_vars, pair_vars, scan_vars, mesh_vars>>

\* backup_and_remove returns from the clean start
CleanStartReturns ==
    /\ ManagerAt("clean_start")
    /\ M.todo = <<>>
    /\ mgr' = Some([M EXCEPT !.pc = "returned",
                     !.results.fmodel_removed = IF M.count > 0 THEN TRUE ELSE @,
                     !.results.fmodel_removed_count =
                         IF M.count > 0 THEN Some(M.count) ELSE @,
                     !.results.message =
                         IF M.count > 0
                         THEN "No optimization folder found, but removed old F_Model_Element files for clean start"
                         ELSE "No optimization data or F_Model files found - ready for fresh start",
                     !.results.success = TRUE,
                     !.returned = Some(TRUE)])
    /\ UNCHANGED <<disk, loader_vars, pair_vars, scan_vars, mesh_vars>>

\* remove_optimization_data returns and backup_and_remove ends
RemoveReturns ==
    /\ ManagerAt("remove_files")
    /\ M.todo = <<>>
    /\ LET backup_success == Get(M.backup_success)
           remove_success == Len(M.removed_items) > 0 \/ Len(M.results.errors) = 0
           success == backup_success
                      /\ (remove_success \/ ~M.results.optimization_exists)
       IN  mgr' = Some([M EXCEPT !.pc = "returned",
                   !.results.fmodel_removed = IF M.count > 0 THEN TRUE ELSE @,
                   !.results.fmodel_removed_count =
                       IF M.count > 0 THEN Some(M.count) ELSE @,
                   !.results.removed_items = Some(M.removed_items),
                   !.results.message =
                       IF backup_success /\ remove_success
                       THEN "Optimization data backed up and removed successfully"
                       ELSE IF backup_success
                            THEN "Backup successful but removal had issues"
                            ELSE "Operation failed",
                   !.results.success = success,
                   !.returned = Some(success)])
    /\ UNCHANGED <<disk, loader_vars, pair_vars, scan_vars, mesh_vars>>

NextManager ==
    \/ \E d \in Disks : NewManager(d)
    \/ \E action \in {"backup-only", "backup-and-remove"} : CallManager(action)
    \/ BackupNothing
    \/ \E outcome \in {"copied", "raised", "raised_midway"} : CopyTree(outcome)
    \/ \E copied \in BOOLEAN : CopyFile(copied)
    \/ BackupDone
    \/ BackupOnlyReturns
    \/ AbortRemoval
    \/ CleanStart
    \/ RemoveData
    \/ \E removed \in BOOLEAN : RemoveTree(removed)
    \/ \E removed \in BOOLEAN : Unlink(removed)
    \/ CleanStartReturns
    \/ RemoveReturns

SpecManager == Init /\ [][NextManager]_vars

\* ------------------------------------------------- _test_antenna_fit, step by step
\* One call of _test_antenna_fit with its locals x and y (doubled, in
\* quanta) and the centres it has tested.  x and y are Python floats.  For
\* the drawings at antenna scale every sum is exact.  A drawing marked far
\* has its x coordinates counted from 1e17 mm, where neighbouring doubles
\* are Ulp mm apart: there every sum on the x axis is rounded to the nearest
\* double, ties to the even one.  Far drawings have axis-parallel edges only,
\* for which intersect_x is x1 exactly.
Ulp == 16

FloatRound(v2, far, res) ==
    IF far THEN 2 * Ulp * res * RoundHalfEven(v2, 2 * Ulp * res) ELSE v2

\* the five test points, their x rounded as the float sums are
ScanTestPoints(x2, y2, a, far, res) ==
    [k \in 1..5 |-> <<FloatRound(TestPoints(x2, y2, a)[k][1], far, res),
                      TestPoints(x2, y2, a)[k][2]>>]

ScanFits(geom, x2, y2, a, far, res) ==
    \A k \in 1..5 :
        PointInPolygon(geom, ScanTestPoints(x2, y2, a, far, res)[k][1],
                             ScanTestPoints(x2, y2, a, far, res)[k][2])

\* a closed rectangle far out on the x axis, as the parser returns it
FarRect(w, h) ==
    Geom(RectPoints(Ulp, 0, w, h), << <<0, 1>>, <<1, 2>>, <<2, 3>>, <<3, 0>> >>, <<>>)

ScanGeometries ==
    {[geom |-> Parse(f), res |-> f.res, far |-> FALSE] :
        f \in {g \in RectPolylineFiles \cup CrossFiles :
                 g.entities[1].closed /\ g.entities[1].type = "LWPOLYLINE"}}
    \cup {[geom |-> FarRect(w, h), res |-> 1, far |-> TRUE] :
             w \in {2 * Ulp, 3 * Ulp}, h \in {antenna_size, 40}}

\* (floor((W - 25) / 5) + 1) * (floor((H - 25) / 5) + 1)
GridBound(geom, res) ==
    (((Width(geom) - antenna_size * res) \div (step * res)) + 1)
    * (((Height(geom) - antenna_size * res) \div (step * res)) + 1)

SC == Get(scan)
ScanAt(label) == IsSome(scan) /\ SC.pc = label

\* _check_minimum_size calls _test_antenna_fit: the box is large enough and
\* there are edges.  x is bound only in the outer loop; until then it is
\* held as min_x.
ScanStart(sg) ==
    /\ scan = None
    /\ mesh = None
    /\ Len(sg.geom.vertices) > 0
    /\ ~(Width(sg.geom) < antenna_size * sg.res \/ Height(sg.geom) < antenna_size * sg.res)
    /\ Len(sg.geom.edges) > 0
    /\ scan' = Some([geom |-> sg.geom, res |-> sg.res, far |-> sg.far,
                     min_x |-> SetMin(XCoords(sg.geom)), max_x |-> SetMax(XCoords(sg.geom)),
                     min_y |-> SetMin(YCoords(sg.geom)), max_y |-> SetMax(YCoords(sg.geom)),
                     a |-> antenna_size * sg.res,
                     y |-> 2 * SetMin(YCoords(sg.geom)) + antenna_size * sg.res,
                     x |-> 2 * SetMin(XCoords(sg.geom)), pc |-> "outer",
                     tested |-> <<>>, result |-> None])
    /\ UNCHANGED <<loader_vars, pair_vars, manager_vars, mesh_vars>>

\* while y <= max_y - half_antenna: x = min_x + half_antenna; else return False
ScanOuter ==
    /\ ScanAt("outer")
    /\ scan' = IF SC.y <= 2 * SC.max_y - SC.a
               THEN Some([SC EXCEPT !.pc = "inner",
                            !.x = FloatRound(2 * SC.min_x + SC.a, SC.far, SC.res)])
               ELSE Some([SC EXCEPT !.pc = "done", !.result = Some(FALSE)])
    /\ UNCHANGED <<loader_vars, pair_vars, manager_vars, mesh_vars>>

\* while x <= max_x - half_antenna; else y += step
ScanInner ==
    /\ ScanAt("inner")
    /\ scan' = IF SC.x <= FloatRound(2 * SC.max_x - SC.a, SC.far, SC.res)
               THEN Some([SC EXCEPT !.pc = "test"])
               ELSE Some([SC EXCEPT !.pc = "outer", !.y = @ + 2 * step * SC.res])
    /\ UNCHANGED <<loader_vars, pair_vars, manager_vars, mesh_vars>>

\* the five points are tested: return True, or x += step.  The centres
\* tested are listed up to one more than the grid bound.
ScanTest ==
    /\ ScanAt("test")
    /\ LET listed == IF Len(SC.tested) <= GridBound(SC.geom, SC.res)
                     THEN Append(SC.tested, <<SC.x, SC.y>>) ELSE SC.tested
       IN  scan' = IF ScanFits(SC.geom, SC.x, SC.y, SC.a, SC.far, SC.res)
                   THEN Some([SC EXCEPT !.pc = "done", !.tested = listed,
                                !.result = Some(TRUE)])
                   ELSE Some([SC EXCEPT !.pc = "inner", !.tested = listed,
                                !.x = FloatRound(@ + 2 * step * SC.res, SC.far, SC.res)])
    /\ UNCHANGED <<loader_vars, pair_vars, manager_vars, mesh_vars>>

ScanStep == ScanOuter \/ ScanInner \/ ScanTest
NextScan ==
    \/ \E sg \in ScanGeometries : ScanStart(sg)
    \/ ScanStep

\* a call that has started goes on running
SpecScan == Init /\ [][NextScan]_vars /\ WF_vars(ScanStep)

\* ------------------------------------------- load() of an STL file, any floats
\* A binary STL file stores every coordinate as an IEEE float, and
\* Mesh.from_file hands the stored values on as they are. Here a coordinate
\* is a number of quanta or NaN: every comparison with NaN is false, every
\* sum or difference with NaN is NaN.
NaN == [nan |-> TRUE, v |-> 0]
Num(n) == [nan |-> FALSE, v |-> n]
Less(a, b) == ~a.nan /\ ~b.nan /\ a.v < b.v
Greater(a, b) == ~a.nan /\ ~b.nan /\ a.v > b.v
Minus(a, b) == IF a.nan \/ b.nan THEN NaN ELSE Num(a.v - b.v)
Plus(a, b) == IF a.nan \/ b.nan THEN NaN ELSE Num(a.v + b.v)

\* min(list) and max(list): the first item, replaced by each later item
\* that compares less (greater) than the one held
RECURSIVE PyMinFrom(_, _)
PyMinFrom(held, list) ==
    IF list = <<>> THEN held
    ELSE PyMinFrom(IF Less(Head(list), held) THEN Head(list) ELSE held, Tail(list))
PyMin(list) == PyMinFrom(Head(list), Tail(list))
RECURSIVE PyMaxFrom(_, _)
PyMaxFrom(held, list) ==
    IF list = <<>> THEN held
    ELSE PyMaxFrom(IF Greater(Head(list), held) THEN Head(list) ELSE held, Tail(list))
PyMax(list) == PyMaxFrom(Head(list), Tail(list))

\* vertex_tuple not in vertex_map: tuples are equal when every component
\* is; a tuple with a NaN equals no tuple
SameTuple(p, q) == \A k \in 1..3 : ~p[k].nan /\ ~q[k].nan /\ p[k].v = q[k].v
MeshAddVertex(st, p) ==
    LET found == {i \in DOMAIN st.vertices : SameTuple(st.vertices[i], p)}
    IN  IF found = {}
        THEN [vertices |-> Append(st.vertices, p), indices |-> Append(st.indices, Len(st.vertices))]
        ELSE [vertices |-> st.vertices, indices |-> Append(st.indices, SetMin(found) - 1)]

Column(vertices, k) == [i \in DOMAIN vertices |-> vertices[i][k]]

MeshTooSmallError(width, height) ==
    Msg("Ground plane bounding box is too small",
        <<IF width.nan THEN NaN ELSE Num(Fmt1(width.v, Res)),
          IF height.nan THEN NaN ELSE Num(Fmt1(height.v, Res)),
          Num(antenna_size), Num(antenna_size)>>)
MeshZVariationSuggestion(z_variation) ==
    Msg("Geometry has significant Z-axis variation",
        <<Num(RoundHalfEven(z_variation.v * 100, Res))>>)

\* calculate_bounds, for vertices that are there; the centre doubled
MeshBounds(vertices) ==
    LET xs == Column(vertices, 1)
        ys == Column(vertices, 2)
        zs == Column(vertices, 3)
    IN  [min_x |-> PyMin(xs), max_x |-> PyMax(xs),
         min_y |-> PyMin(ys), max_y |-> PyMax(ys),
         min_z |-> PyMin(zs), max_z |-> PyMax(zs),
         width |-> Minus(PyMax(xs), PyMin(xs)),
         height |-> Minus(PyMax(ys), PyMin(ys)),
         depth |-> Minus(PyMax(zs), PyMin(zs)),
         center2 |-> <<Plus(PyMin(xs), PyMax(xs)), Plus(PyMin(ys), PyMax(ys)),
                       Plus(PyMin(zs), PyMax(zs))>>]

\* the triangles Mesh.from_file returns: three points each
MeshCoords == {Num(0), Num(40 * Res), NaN}
MeshPts ==
    {<<x, y, Num(0)>> : x \in MeshCoords, y \in MeshCoords}
      \cup {<<Num(0), Num(0), NaN>>, <<Num(40 * Res), Num(40 * Res), Num(6 * Res)>>,
            <<Num(20 * Res), Num(40 * Res), Num(0)>>}
MeshFiles ==
    {<< >>}
      \cup {<< <<p, q, r>> >> : p \in MeshPts, q \in MeshPts, r \in MeshPts}
      \cup {<< <<p, <<Num(40 * Res), Num(0), Num(0)>>, <<Num(0), Num(40 * Res), Num(0)>> >>,
               <<<<Num(40 * Res), Num(0), Num(0)>>, <<Num(0), Num(40 * Res), Num(0)>>, q>> >> :
              p \in MeshPts, q \in MeshPts}

ML == Get(mesh)
MeshAt(label) == IsSome(mesh) /\ ML.pc = label

\* GNDLoader(file).load() up to Mesh.from_file
MeshStart(f) ==
    /\ mesh = None
    /\ mesh' = Some([pc |-> "stl", file |-> f, next |-> 1,
                     vertices |-> <<>>, faces |-> <<>>, metadata |-> <<>>,
                     errors |-> <<>>, warnings |-> <<>>, suggestions |-> <<>>,
                     bounds |-> None, result |-> None, failure |-> None])
    /\ UNCHANGED <<loader_vars, pair_vars, manager_vars, scan_vars>>

\* one turn of `for i, triangle in enumerate(stl_mesh.vectors)`
MeshTriangle ==
    /\ MeshAt("stl")
    /\ ML.next <= Len(ML.file)
    /\ LET tri == ML.file[ML.next]
           s1 == MeshAddVertex([vertices |-> ML.vertices, indices |-> <<>>], tri[1])
           s2 == MeshAddVertex(s1, tri[2])
           s3 == MeshAddVertex(s2, tri[3])
       IN  mesh' = Some([ML EXCEPT !.vertices = s3.vertices,
                                   !.faces = Append(@, s3.indices),
                                   !.next = @ + 1])
    /\ UNCHANGED <<loader_vars, pair_vars, manager_vars, scan_vars>>

\* the metadata is set, parse() returns, load() makes the validator and
\* calls get_report()
MeshParsed ==
    /\ MeshAt("stl")
    /\ ML.next > Len(ML.file)
    /\ mesh' = Some([ML EXCEPT !.pc = "empty",
                               !.metadata = StlMetadata([entities |-> ML.file],
                                                        [vertices |-> ML.vertices])])
    /\ UNCHANGED <<loader_vars, pair_vars, manager_vars, scan_vars>>

MeshCheckEmpty ==
    /\ MeshAt("empty")
    /\ mesh' = Some([ML EXCEPT !.pc = "minsize",
                               !.errors = IF Len(ML.vertices) = 0
                                          THEN Append(@, EmptyError) ELSE @])
    /\ UNCHANGED <<loader_vars, pair_vars, manager_vars, scan_vars>>

\* _check_minimum_size; the mesh has no edges, so no position is searched
MeshCheckMinimumSize ==
    /\ MeshAt("minsize")
    /\ LET xs == Column(ML.vertices, 1)
           ys == Column(ML.vertices, 2)
           width == Minus(PyMax(xs), PyMin(xs))
           height == Minus(PyMax(ys), PyMin(ys))
       IN  mesh' = Some([ML EXCEPT
               !.pc = "planar",
               !.errors =
                   IF Len(ML.vertices) = 0 THEN @
                   ELSE IF Less(width, Num(antenna_size * Res))
                           \/ Less(height, Num(antenna_size * Res))
                   THEN Append(@, MeshTooSmallError(width, height))
                   ELSE @])
    /\ UNCHANGED <<loader_vars, pair_vars, manager_vars, scan_vars>>

MeshCheckPlanar ==
    /\ MeshAt("planar")
    /\ LET zs == Column(ML.vertices, 3)
           z_variation == Minus(PyMax(zs), PyMin(zs))
       IN  mesh' = Some([ML EXCEPT
               !.pc = "closed",
               !.suggestions =
                   IF Len(ML.vertices) = 0 THEN @
                   ELSE IF Greater(z_variation, Num(MaxZVariation * Res))
                   THEN Append(@, MeshZVariationSuggestion(z_variation))
                   ELSE @])
    /\ UNCHANGED <<loader_vars, pair_vars, manager_vars, scan_vars>>

\* _check_closed_boundaries and _check_self_intersections: no edges
MeshCheckClosed ==
    /\ MeshAt("closed")
    /\ mesh' = Some([ML EXCEPT !.pc = "report",
                               !.warnings = IF Len(ML.faces) > 0 THEN @
                                            ELSE Append(@, NoConnectivityWarning)])
    /\ UNCHANGED <<loader_vars, pair_vars, manager_vars, scan_vars>>

\* load(): the report is not valid
MeshInvalid ==
    /\ MeshAt("report")
    /\ Len(ML.errors) > 0
    /\ mesh' = Some([ML EXCEPT !.pc = "failed",
                               !.failure = Some(LoadFailure(InvalidMessage(ML.errors)))])
    /\ UNCHANGED <<loader_vars, pair_vars, manager_vars, scan_vars>>

\* load(): the report is valid; the bounds are calculated and the dict returned
MeshReturn ==
    /\ MeshAt("report")
    /\ Len(ML.errors) = 0
    /\ LET b == IF Len(ML.vertices) = 0 THEN None ELSE Some(MeshBounds(ML.vertices))
       IN  mesh' = Some([ML EXCEPT
               !.pc = "returned",
               !.bounds = b,
               !.result = Some([geometry |-> [vertices |-> ML.vertices, faces |-> ML.faces,
                                              edges |-> <<>>, metadata |-> ML.metadata],
                                bounds |-> b, format |-> STL,
                                vertex_count |-> Len(ML.vertices),
                                face_count |-> Len(ML.faces), edge_count |-> 0,
                                validation |-> [valid |-> Len(ML.errors) = 0,
                                                errors |-> ML.errors,
                                                warnings |-> ML.warnings,
                                                suggestions |-> ML.suggestions]])])
    /\ UNCHANGED <<loader_vars, pair_vars, manager_vars, scan_vars>>

NextMesh ==
    \/ \E f \in MeshFiles : MeshStart(f)
    \/ MeshTriangle
    \/ MeshParsed
    \/ MeshCheckEmpty
    \/ MeshCheckMinimumSize
    \/ MeshCheckPlanar
    \/ MeshCheckClosed
    \/ MeshInvalid
    \/ MeshReturn

SpecMesh == Init /\ [][NextMesh]_vars

\* ------------------------------------------------------------ properties
Loading == IsSome(file)
Reported == IsSome(report)
VG == Get(vgeom)
Side == antenna_size * CurRes

\* the 2-D position of vertex index i
At(geom, i) == <<Vertex(geom, i)[1], Vertex(geom, i)[2]>>
Positions2D(geom) == {<<geom.vertices[i][1], geom.vertices[i][2]>> : i \in DOMAIN geom.vertices}
WellFormed(geom) == \A i \in DOMAIN geom.vertices : Len(geom.vertices[i]) >= 2
InRange(geom) ==
    \A i \in DOMAIN geom.edges :
        /\ Len(geom.edges[i]) = 2
        /\ \A k \in 1..2 : geom.edges[i][k] \in 0..(Len(geom.vertices) - 1)
\* the edges as unordered pairs of positions
Segments(geom) == {{At(geom, geom.edges[i][1]), At(geom, geom.edges[i][2])} : i \in DOMAIN geom.edges}

\* the boundary of the polygon through the points pts, in order, closed
Outline(pts) ==
    {{<<pts[i][1], pts[i][2]>>, <<pts[(i % Len(pts)) + 1][1], pts[(i % Len(pts)) + 1][2]>>} :
        i \in DOMAIN pts}

\* geom is a closed axis-aligned w by h rectangle: four vertices, the
\* corners, and four edges, the sides, each in either direction
IsClosedRect(geom, w, h) ==
    /\ Len(geom.vertices) = 4
    /\ Len(geom.edges) = 4
    /\ WellFormed(geom)
    /\ InRange(geom)
    /\ Width(geom) = w
    /\ Height(geom) = h
    /\ LET x0 == SetMin(XCoords(geom))
           y0 == SetMin(YCoords(geom))
       IN  /\ Positions2D(geom) = {<<x0, y0>>, <<x0 + w, y0>>, <<x0 + w, y0 + h>>, <<x0, y0 + h>>}
           /\ Segments(geom) = Outline(RectPoints(x0, y0, w, h))

\* C1: when the report of the parsed geometry is not valid, load() raises
\* instead of returning, and the message holds every error of the report;
\* load() goes on to a result only with a valid report
C1_InvalidReportFailsLoad ==
    (Loading /\ Reported /\ pc \in {"failed", "bounded", "returned"}) =>
        /\ ~Get(report).valid =>
              /\ pc = "failed"
              /\ result = None
              /\ IsSome(failure)
              /\ Len(ReportErrors) > 0
              /\ \A i \in DOMAIN ReportErrors : ReportErrors[i] \in Range(Get(failure))
        /\ (pc \in {"bounded", "returned"} \/ IsSome(result)) => Get(report).valid

C1_Witness ==
    /\ Loading /\ Reported /\ pc = "failed"
    /\ ~Get(report).valid
    /\ Len(ReportErrors) > 0

\* C2: after load() has failed, no result is returned and the loader's
\* geometry and bounds fields hold nothing
C2_NoGeometryAfterFailure ==
    pc = "failed" => (result = None /\ geometry = None /\ bounds = None)

\* A step of one of the three advisory checks (planarity, closure,
\* complexity).
AdvisoryStep == vpc \in {"planar", "closed", "selfint"} /\ vpc' # vpc

\* C3: the report is valid iff its errors list is empty, and the
\* planarity, boundary-closure and complexity checks leave the errors
\* list as it is
C3_ValidIffNoErrors ==
    /\ [](Reported => (Get(report).valid <=> Len(ReportErrors) = 0))
    /\ [][AdvisoryStep => lists'.errors = lists.errors]_vars

C3_Witness ==
    /\ Reported
    /\ Get(report).valid
    /\ Len(ReportWarnings) > 0
    /\ Len(ReportSuggestions) > 0

\* C4: a geometry with vertices whose bounding box is narrower or lower
\* than the antenna side gets the too-small error and no other, and is
\* reported not valid
C4_TooSmallRejected ==
    (Reported /\ Len(VG.vertices) > 0 /\ (Width(VG) < Side \/ Height(VG) < Side)) =>
        /\ Range(ReportErrors) = {TooSmallError(Width(VG), Height(VG), CurRes)}
        /\ ~Get(report).valid

C4_Witness ==
    /\ Reported
    /\ IsClosedRect(VG, 20 * CurRes, 20 * CurRes)
    /\ Len(ReportErrors) = 1

\* C5: a closed axis-aligned square boundary of side 40 is reported
\* valid, with no errors
C5_Square40Fits ==
    (Reported /\ IsClosedRect(VG, 40 * CurRes, 40 * CurRes)) =>
        /\ Get(report).valid
        /\ ReportErrors = <<>>

C5_Witness ==
    /\ Reported
    /\ IsClosedRect(VG, 40 * CurRes, 40 * CurRes)
    /\ SetMin(XCoords(VG)) < 0
    /\ At(VG, VG.edges[1][1])[1] > At(VG, VG.edges[1][2])[1]

\* the k-th smallest element of a set of integers
RECURSIVE Kth(_, _)
Kth(S, k) == IF k = 1 THEN SetMin(S) ELSE Kth(S \ {SetMin(S)}, k - 1)

\* geom is a closed plus/cross: twelve vertices and twelve edges, the
\* outline of a horizontal bar and a vertical bar crossing inside the
\* bounding box; ArmW and ArmH are the bars' widths
IsCross(geom) ==
    /\ Len(geom.vertices) = 12
    /\ Len(geom.edges) = 12
    /\ WellFormed(geom)
    /\ InRange(geom)
    /\ Cardinality(XCoords(geom)) = 4
    /\ Cardinality(YCoords(geom)) = 4
    /\ LET x(k) == Kth(XCoords(geom), k)
           y(k) == Kth(YCoords(geom), k)
           pts == CrossPoints(x(1), y(1), x(4) - x(1), y(4) - y(1),
                              x(2) - x(1), x(3) - x(2), y(2) - y(1), y(3) - y(2))
       IN  /\ Positions2D(geom) = {<<pts[i][1], pts[i][2]>> : i \in DOMAIN pts}
           /\ Segments(geom) = Outline(pts)
ArmW(geom) == Kth(XCoords(geom), 3) - Kth(XCoords(geom), 2)
ArmH(geom) == Kth(YCoords(geom), 3) - Kth(YCoords(geom), 2)

NarrowCross(geom, res) ==
    /\ IsCross(geom)
    /\ ArmW(geom) < antenna_size * res
    /\ ArmH(geom) < antenna_size * res
    /\ Width(geom) >= 40 * res
    /\ Height(geom) >= 40 * res

\* C6: a closed cross whose two arms are narrower than the antenna side,
\* in a bounding box of at least 40 by 40, passes the size check, gets the
\* no-area-fits error and is reported not valid
C6_NarrowCrossRejected ==
    (Reported /\ NarrowCross(VG, CurRes)) =>
        /\ Range(ReportErrors) = {NoFitError(Width(VG), Height(VG), CurRes)}
        /\ ~Get(report).valid

C6_Witness ==
    /\ Reported
    /\ NarrowCross(VG, CurRes)
    /\ ArmW(VG) = antenna_size * CurRes - 1
    /\ ArmH(VG) = antenna_size * CurRes - 1
    /\ Len(ReportErrors) = 1

\* C7: for a geometry without vertices the emptiness error is appended and
\* stays the only error, no check raises, the report is not valid, and
\* calculate_bounds returns None without raising
C7_EmptyGeometry ==
    /\ (IsSome(vgeom) /\ Len(VG.vertices) = 0) =>
          /\ vpc # "raised"
          /\ ~lists.raised
          /\ vpc \notin {"none", "empty"} => Range(lists.errors) = {EmptyError}
          /\ Reported => ~Get(report).valid
    /\ (IsSome(bounds_call) /\ IsSome(geometry) /\ Len(Get(geometry).vertices) = 0) =>
          /\ ~Get(bounds_call).raised
          /\ Get(bounds_call).value = None

C7_Witness ==
    /\ Reported
    /\ Len(VG.vertices) = 0
    /\ ReportErrors = <<EmptyError>>
    /\ IsSome(geometry)
    /\ IsSome(bounds_call)

\* a geometry without vertices but with edges and faces went through all
\* the checks
C7_WitnessEdges ==
    /\ Reported
    /\ Len(VG.vertices) = 0
    /\ Len(VG.edges) > 0
    /\ Len(VG.faces) > 0

\* C8: a geometry with vertices, a bounding box of at least the antenna
\* side both ways and no edges gets no error and is reported valid
C8_NoEdgesAccepted ==
    (Reported /\ Len(VG.vertices) >= 1 /\ Width(VG) >= Side /\ Height(VG) >= Side
       /\ Len(VG.edges) = 0) =>
        /\ ReportErrors = <<>>
        /\ Get(report).valid

C8_Witness ==
    /\ Reported
    /\ Len(VG.vertices) >= 1 /\ Width(VG) >= Side /\ Height(VG) >= Side
    /\ Len(VG.edges) = 0
    /\ Len(VG.faces) > 0

\* the calls of add_vertex made so far by the DXF parser
DxfCalls == IF Loading /\ format = DXF THEN parser.calls ELSE <<>>
\* |a - b| against epsilon, for coordinates in quanta: epsilon is
\* res / EpsPerMm quanta
CloserThanEps(a, b, res) == Abs(a - b) * EpsPerMm < res
FartherThanEps(a, b, res) == Abs(a - b) * EpsPerMm > res

\* C9: two points given to add_vertex that differ by less than epsilon on
\* every axis get the same index
C9_ToleranceMerge ==
    \A i, j \in DOMAIN DxfCalls :
        (\A k \in 1..3 : CloserThanEps(DxfCalls[i].p[k], DxfCalls[j].p[k], CurRes))
            => DxfCalls[i].idx = DxfCalls[j].idx

ValidIndices(g) ==
    /\ \A i \in DOMAIN g.edges : \A k \in DOMAIN g.edges[i] :
          g.edges[i][k] \in 0..(Len(g.vertices) - 1)
    /\ \A i \in DOMAIN g.faces : \A k \in DOMAIN g.faces[i] :
          g.faces[i][k] \in 0..(Len(g.vertices) - 1)

\* C11: while the DXF or STL parser works through a file, after each
\* entity or triangle, and in the geometry it returns, every index stored
\* in edges or faces is an index into vertices
C11_IndexInvariant ==
    /\ (Loading /\ pc \in {"dxf", "stl"}) => ValidIndices(parser.g)
    /\ (Loading /\ IsSome(geometry)) => ValidIndices(Get(geometry))

\* between two entities: a CIRCLE has been processed, a second entity
\* is still to come
C11_Witness ==
    /\ pc = "dxf"
    /\ next = 2
    /\ Len(Get(file).entities) = 2
    /\ Get(file).entities[1].type = "CIRCLE"
    /\ Len(parser.g.edges) = segments
    /\ Len(parser.g.vertices) = segments

\* the vertices stored so far by the DXF parser
DxfVertices == IF Loading /\ format = DXF THEN parser.g.vertices ELSE <<>>

\* C12: within one DXF parse, no two stored vertices are closer to each
\* other than epsilon on every axis
C12_DedupInvariant ==
    \A i, j \in DOMAIN DxfVertices :
        i # j => \E k \in 1..3 :
            ~CloserThanEps(DxfVertices[i][k], DxfVertices[j][k], CurRes)

\* the calls of add_vertex (DXF) or the vertices looked up (STL) so far,
\* and the key each one was looked up under
ParserCalls == IF Loading /\ format \in {DXF, STL} THEN parser.calls ELSE <<>>
CallKey(c) == IF format = DXF THEN DxfKey(c.p, CurRes) ELSE c.p
KeysBefore(i) == {CallKey(ParserCalls[j]) : j \in 1..(i - 1)}

\* a new key gets the number of distinct keys seen before it, a repeated
\* key the index of its first occurrence; one vertex is stored per
\* distinct key, the point of the key's first occurrence
DiscoveryOrder ==
    /\ \A i \in DOMAIN ParserCalls :
          LET c == ParserCalls[i]
          IN  IF CallKey(c) \in KeysBefore(i)
              THEN \E j \in 1..(i - 1) :
                      /\ CallKey(ParserCalls[j]) = CallKey(c)
                      /\ ParserCalls[j].idx = c.idx
              ELSE /\ c.idx = Cardinality(KeysBefore(i))
                   /\ c.idx < Len(parser.g.vertices)
                   /\ parser.g.vertices[c.idx + 1] = c.p
    /\ (Loading /\ format \in {DXF, STL}) =>
          Len(parser.g.vertices) = Cardinality(KeysBefore(Len(ParserCalls) + 1))

\* C13: indices follow the discovery order of the keys, and a second
\* parse of the same file returns the same vertices, edges and faces as
\* the first
C13_DedupDeterminism ==
    /\ DiscoveryOrder
    /\ (IsSome(prev) /\ IsSome(geometry)) => Get(geometry) = Get(prev)

\* a file in which a key repeats has been parsed a second time
C13_Witness ==
    /\ IsSome(prev)
    /\ IsSome(geometry)
    /\ Len(Get(geometry).vertices) > 1
    /\ Len(ParserCalls) > Len(Get(geometry).vertices)
    /\ Len(Get(geometry).edges) > 1

\* the suffix of the file at hand is sfx, letter case aside
Capital(c) ==
    CASE c = "d" -> "D" [] c = "x" -> "X" [] c = "f" -> "F"
      [] c = "s" -> "S" [] c = "t" -> "T" [] c = "l" -> "L"
      [] c = "e" -> "E" [] c = "p" -> "P" [] c = "v" -> "V"
      [] c = "b" -> "B" [] OTHER -> c
Reads(s, sfx) ==
    /\ Len(s) = Len(sfx)
    /\ \A i \in DOMAIN s : s[i] \in {sfx[i], Capital(sfx[i])}
SuffixIs(sfx) == Reads(Get(file).suffix, sfx)
Unreadable == Some(LoadFailure(<<Msg("cannot read file", <<>>)>>))
Unsupported(sfx) ==
    Some(LoadFailure(<<[text |-> "Unsupported format: ", args |-> <<>>,
                        chars |-> sfx]>>))
NotImplemented ==
    Some(LoadFailure(<<Msg("STEP parsing requires pythonOCC-core. Coming in future update.",
                           <<>>)>>))
\* the failure is the unsupported-format error and carries the suffix of
\* the file
NamesSuffix(f) ==
    /\ IsSome(f)
    /\ Len(Get(f)) = 2
    /\ Get(f) = Get(Unsupported(Get(f)[2].chars))
    /\ SuffixIs(Get(f)[2].chars)

\* what parse() does to a file, by the parser it selects
RunsDxfParser == pc' = "dxf" \/ (pc' = "failed" /\ failure' = Unreadable)
RunsStlParser == pc' = "stl" \/ (pc' = "failed" /\ failure' = Unreadable)
RunsStepParser == pc' = "failed" /\ failure' = NotImplemented
RunsVbsParser ==
    \/ /\ pc' = "parsed"
       /\ IsSome(geometry')
       /\ Get(geometry').metadata = VbsMetadata(Get(file))
    \/ (pc' = "failed" /\ failure' = Unreadable)
RejectsFormat == pc' = "failed" /\ NamesSuffix(failure')

\* C14: parse() selects the parser by the suffix in lower case: the DXF,
\* STL, STEP or VBScript parser for .dxf, .stl, .step/.stp, .vbs, and for
\* any other suffix it fails with the unsupported-format error that
\* carries the suffix, whether or not the file can be read
C14_FormatDispatch ==
    [][(pc = "parse" /\ pc' # "parse") =>
          CASE SuffixIs(DXF) -> RunsDxfParser
            [] SuffixIs(STL) -> RunsStlParser
            [] SuffixIs(<<".", "s", "t", "e", "p">>) -> RunsStepParser
            [] SuffixIs(<<".", "s", "t", "p">>) -> RunsStepParser
            [] SuffixIs(VBS) -> RunsVbsParser
            [] OTHER -> RejectsFormat]_vars

\* a file with an unknown suffix in capitals, which cannot be read, was
\* rejected as unsupported
C14_Witness ==
    /\ Loading
    /\ pc = "failed"
    /\ Get(file).suffix = <<".", "T", "X", "T">>
    /\ ~Get(file).readable
    /\ failure = Unsupported(<<".", "t", "x", "t">>)

\* the file at hand has the suffix .step or .stp, in any letter case
IsStepFile ==
    /\ Loading
    /\ SuffixIs(<<".", "s", "t", "e", "p">>) \/ SuffixIs(<<".", "s", "t", "p">>)

\* C15: for a .step or .stp file the parser returns no Geometry at any
\* time; its call fails with the not-implemented error that names
\* pythonOCC-core, and load() fails with it and returns no result
C15_StepPlaceholder ==
    IsStepFile =>
        /\ geometry = None
        /\ result = None
        /\ bounds = None
        /\ pc \in {"parse", "failed"}
        /\ pc = "parse" => ENABLED ParseStep
        /\ pc = "failed" => failure = NotImplemented

C15_Witness ==
    /\ IsStepFile
    /\ Get(file).suffix = <<".", "S", "T", "P">>
    /\ pc = "failed"
    /\ failure = NotImplemented
    /\ result = None

\* b is the bounding box of the vertices vs: per axis the least and the
\* greatest coordinate, their difference, and their midpoint (doubled)
IsLeast(m, S) == m \in S /\ \A x \in S : m <= x
IsGreatest(m, S) == m \in S /\ \A x \in S : m >= x
Axis(vs, k) == {vs[i][k] : i \in DOMAIN vs}
IsBoundingBox(b, vs) ==
    /\ IsLeast(b.min_x, Axis(vs, 1)) /\ IsGreatest(b.max_x, Axis(vs, 1))
    /\ IsLeast(b.min_y, Axis(vs, 2)) /\ IsGreatest(b.max_y, Axis(vs, 2))
    /\ IsLeast(b.min_z, Axis(vs, 3)) /\ IsGreatest(b.max_z, Axis(vs, 3))
    /\ b.width = b.max_x - b.min_x
    /\ b.height = b.max_y - b.min_y
    /\ b.depth = b.max_z - b.min_z
    /\ b.center2 = <<b.min_x + b.max_x, b.min_y + b.max_y, b.min_z + b.max_z>>

\* the vertices (0,0,0), (30,0,0), (30,30,0), (0,30,0), in quanta
Square30 == RectPoints(0, 0, 30 * Res, 30 * Res)

\* the boxes calculate_bounds has returned: to load(), and to the caller
BoxesReturned ==
    (IF IsSome(bounds) THEN {Get(bounds)} ELSE {})
      \cup (IF IsSome(bounds_call) /\ IsSome(Get(bounds_call).value)
            THEN {Get(Get(bounds_call).value)} ELSE {})

\* C16: for a non-empty vertex list calculate_bounds returns the
\* bounding box of the vertices, and for the 30 mm square at the origin
\* width 30, height 30, depth 0 and centre (15, 15, 0)
C16_BoundsCorrect ==
    \A b \in BoxesReturned :
        /\ IsBoundingBox(b, Get(geometry).vertices)
        /\ Get(geometry).vertices = Square30 =>
              /\ b.width = 30 * Res /\ b.height = 30 * Res /\ b.depth = 0
              /\ b.center2 = <<2 * 15 * Res, 2 * 15 * Res, 0>>

C16_Witness ==
    /\ IsSome(geometry)
    /\ Get(geometry).vertices = Square30
    /\ IsSome(bounds)
    /\ Get(bounds).width = 30 * Res
    /\ IsSome(bounds_call)
    /\ Get(bounds_call).value = bounds

\* the reports get_report() has returned on this geometry, each as it
\* stood when it was returned
ReportsReturned == {i \in DOMAIN runs : runs[i].call = "get_report"}
SameReport(a, b) ==
    /\ a.valid = b.valid
    /\ a.errors = b.errors
    /\ a.warnings = b.warnings
    /\ a.suggestions = b.suggestions

\* C17: two validation runs on the same unchanged Geometry return
\* reports with the same flag and the same errors, warnings and
\* suggestions, in the same order
C17_ValidationIdempotent ==
    \A i, j \in ReportsReturned : SameReport(runs[i], runs[j])

\* two runs, each on a GNDValidator of its own, return the same report
FreshValidatorsAgree ==
    \A i, j \in ReportsReturned :
        (runs[i].validator # runs[j].validator) => SameReport(runs[i], runs[j])

\* C18: a report that get_report() has returned keeps its errors,
\* warnings and suggestions through every later call of is_valid() or
\* get_report() on the same GNDValidator
C18_ReportImmutable ==
    \A i \in ReportsReturned :
        runs[i].validator = vid =>
            /\ ReportErrors = runs[i].errors
            /\ ReportWarnings = runs[i].warnings
            /\ ReportSuggestions = runs[i].suggestions

\* the steps of load() end as load() taken as one function does
StepsMatchLoad ==
    (Loading /\ pc \in {"failed", "returned"}) =>
        Outcome(failure, result, geometry, bounds, lists) = Load(Get(file))

\* what invocation i has left behind
PDone(i) == i \in DOMAIN inv /\ inv[i].pc \in {"failed", "returned"}
POutcome(i) ==
    Outcome(inv[i].failure, inv[i].result,
            IF inv[i].gref = 0 THEN None ELSE Some(PGeometry(i)),
            inv[i].bounds,
            IF inv[i].vref = 0 THEN NoLists ELSE objs[inv[i].vref].l)

\* C19: each of two load() invocations on different files, their steps
\* interleaved in any order, ends as it does when it runs alone
C19_InvocationsIndependent ==
    \A i \in 1..2 : PDone(i) => POutcome(i) = Load(inv[i].file)

\* both invocations are over, one with a result and one with a rejected
\* drawing, and each had started parsing before the other validated
C19_Witness ==
    /\ PDone(1) /\ PDone(2)
    /\ inv[1].pc = "returned"
    /\ inv[2].pc = "failed"
    /\ inv[2].gref = 1 /\ inv[1].gref = 2
    /\ inv[1].vref = 3 /\ inv[2].vref = 4
    /\ Len(PGeometry(1).vertices) = 4
    /\ Len(PGeometry(2).vertices) = 4

\* backup_optimization_folder() has reported failure to backup_and_remove()
BackupFailed ==
    /\ IsSome(mgr)
    /\ IsBackupAndRemove
    /\ M.backup_success = Some(FALSE)

\* C20: when backup_optimization_folder() reports failure, backup_and_remove()
\* removes nothing (the Optimization folder and every F_Model_Element file
\* there was when it was called still exist) and results.success is false
C20_AbortKeepsData ==
    BackupFailed =>
        /\ M.entry.opt /\ D.opt
        /\ \A p \in M.entry.files : Present(M.entry, p) => Present(D, p)
        /\ M.pc = "returned" =>
              M.results.success = FALSE /\ M.returned = Some(FALSE)

\* a manager whose first call succeeded (results.success was true) is told
\* to back up and remove; the copy of the tree breaks off midway, and the
\* call has returned with files in the root and in Function/HFSS in place
C20_Witness ==
    /\ BackupFailed
    /\ M.pc = "returned"
    /\ M.calls = 2
    /\ \E b \in D.backups : b.tree = "whole"
    /\ \E b \in D.backups : b.slot = Get(M.results.backup_path) /\ b.tree = "part"
    /\ RootM \in M.entry.files /\ HfssM \in M.entry.files

\* the backup folders the running call has created
BackupsOfThisRun == {b \in D.backups : b.slot \notin Slots(M.entry)}
\* the running call has copied the whole Optimization tree
TreeBackedUp == \E b \in BackupsOfThisRun : b.tree = "whole"
\* the running call's backup folder holds a copy of file p
FileBackedUp(p) ==
    \E b \in BackupsOfThisRun : [name |-> p.name, from |-> p] \in b.copies

\* C21: in every run of backup_and_remove(), each item it removes (the
\* Optimization folder, each F_Model_Element file) has been copied into the
\* backup folder created by that run before it is removed
C21_BackupBeforeRemoval ==
    [][(IsSome(mgr) /\ IsBackupAndRemove /\ M.pc \in {"remove", "clean_start", "remove_files"})
          => /\ (D.opt /\ ~Get(disk').opt) => TreeBackedUp
             /\ \A p \in D.files \ Get(disk').files : FileBackedUp(p)]_vars

\* --- the grid-search reference of the placement check, stated on its own
\* the edges that have both endpoints among the vertices
RefEdges(geom) ==
    {i \in DOMAIN geom.edges :
        /\ Len(geom.edges[i]) >= 2
        /\ \A k \in 1..2 : geom.edges[i][k] \in 0..(Len(geom.vertices) - 1)}

\* edge i has exactly one endpoint strictly above the point (px2/2, py2/2)
\* and meets the horizontal line through it strictly to its right
RefCrossesRight(geom, i, px2, py2) ==
    LET p == At(geom, geom.edges[i][1])
        q == At(geom, geom.edges[i][2])
        lo == IF p[2] <= q[2] THEN p ELSE q
        hi == IF p[2] <= q[2] THEN q ELSE p
    IN  /\ 2 * lo[2] <= py2
        /\ py2 < 2 * hi[2]
        /\ (hi[1] - lo[1]) * (py2 - 2 * lo[2]) > (px2 - 2 * lo[1]) * (hi[2] - lo[2])

RefInside(geom, px2, py2) ==
    Cardinality({i \in RefEdges(geom) : RefCrossesRight(geom, i, px2, py2)}) % 2 = 1

\* the candidate centres (doubled): min + 12.5 + 5i, up to max - 12.5
RefCentres(geom, res) ==
    LET a == antenna_size * res
        n == (Width(geom) + Height(geom)) \div (step * res)
    IN  {c \in {<<2 * SetMin(XCoords(geom)) + a + 2 * step * res * i,
                  2 * SetMin(YCoords(geom)) + a + 2 * step * res * j>> :
                     i \in 0..n, j \in 0..n} :
            /\ c[1] <= 2 * SetMax(XCoords(geom)) - a
            /\ c[2] <= 2 * SetMax(YCoords(geom)) - a}

\* the centre and the four corners of the antenna placed at centre c
RefPoints(c, res) ==
    {c} \cup {<<c[1] + dx * antenna_size * res, c[2] + dy * antenna_size * res>> :
                 dx \in {-1, 1}, dy \in {-1, 1}}

RefFits(geom, res) ==
    \E c \in RefCentres(geom, res) :
        \A p \in RefPoints(c, res) : RefInside(geom, p[1], p[2])

InBoundingBox(geom, p) ==
    /\ 2 * SetMin(XCoords(geom)) <= p[1] /\ p[1] <= 2 * SetMax(XCoords(geom))
    /\ 2 * SetMin(YCoords(geom)) <= p[2] /\ p[2] <= 2 * SetMax(YCoords(geom))

\* a validated geometry with at least one edge and a bounding box of at
\* least the antenna side both ways
LargeWithEdges ==
    /\ Reported
    /\ Len(VG.vertices) > 0
    /\ WellFormed(VG)
    /\ Len(VG.edges) >= 1
    /\ Width(VG) >= Side /\ Height(VG) >= Side

C22_WitnessNoFit ==
    /\ LargeWithEdges
    /\ Cardinality(RefCentres(VG, CurRes)) > 1
    /\ NoFitError(Width(VG), Height(VG), CurRes) \in Range(ReportErrors)

ScanDone == ScanAt("done")
\* the centres tested so far come row by row: y never decreases, and x
\* increases within a row
RowByRow(tested) ==
    \A i \in 1..(Len(tested) - 1) :
        \/ tested[i][2] < tested[i + 1][2]
        \/ tested[i][2] = tested[i + 1][2] /\ tested[i][1] < tested[i + 1][1]
\* the antenna fits at a tested centre, by the reference rule
FitsAt(c) ==
    \A k \in 1..5 :
        RefInside(SC.geom, ScanTestPoints(c[1], c[2], SC.a, SC.far, SC.res)[k][1],
                           ScanTestPoints(c[1], c[2], SC.a, SC.far, SC.res)[k][2])
\* no centre was tested after one that fits, and True is returned exactly
\* at a centre that fits
StopsAtFirstFit ==
    /\ \A i \in 1..(Len(SC.tested) - 1) : ~FitsAt(SC.tested[i])
    /\ (ScanDone /\ SC.tested # <<>>) =>
          (SC.result = Some(TRUE) <=> FitsAt(SC.tested[Len(SC.tested)]))
    /\ (ScanDone /\ SC.tested = <<>>) => SC.result = Some(FALSE)
FollowsGrid ==
    /\ Len(SC.tested) <= GridBound(SC.geom, SC.res)
    /\ RowByRow(SC.tested)
    /\ StopsAtFirstFit

\* C23: for every bounding box of at least 25 by 25, _test_antenna_fit
\* terminates, tests at most (floor((W-25)/5)+1) * (floor((H-25)/5)+1)
\* centres, row by row in increasing y then increasing x, and returns true
\* at the first centre that fits without testing later ones
C23_GridSearchTerminates ==
    /\ IsSome(scan) ~> ScanDone
    /\ [](IsSome(scan) => FollowsGrid)

\* the same for the drawings at antenna scale, where the float sums are exact
NearScansTerminate == (IsSome(scan) /\ ~SC.far) ~> ScanDone
NearScansFollowGrid ==
    (IsSome(scan) /\ ~SC.far) =>
        /\ FollowsGrid
        /\ ScanDone => SC.result = Some(TestAntennaFit(SC.geom, SC.res, SC.min_x, SC.max_x,
                                                       SC.min_y, SC.max_y))

\* how many edge endpoints are vertex index v, counted edge by edge
RECURSIVE Endpoints(_, _)
Endpoints(edges, v) ==
    IF edges = <<>> THEN 0
    ELSE Cardinality({k \in DOMAIN Head(edges) : Head(edges)[k] = v}) + Endpoints(Tail(edges), v)
\* the vertex indices touched by an odd number of edge endpoints
OddVertices(geom) ==
    {v \in UNION {Range(geom.edges[i]) : i \in DOMAIN geom.edges} :
        Endpoints(geom.edges, v) % 2 = 1}
\* what the boundary-closure check is to append to the warnings
ClosureWarnings(geom) ==
    IF Len(geom.edges) > 0
    THEN IF Cardinality(OddVertices(geom)) > 2
         THEN <<OpenBoundaryWarning(Cardinality(OddVertices(geom)))>>
         ELSE <<>>
    ELSE IF Len(geom.faces) > 0 THEN <<>> ELSE <<NoConnectivityWarning>>
ClosureStep == vpc = "closed" /\ vpc' # vpc

\* C24: the boundary-closure check appends the open-boundary warning with
\* the count iff edges exist and more than 2 vertices are touched by an
\* odd number of edge endpoints; with no edges but faces it appends
\* nothing; with neither it appends the no-connectivity warning; it never
\* appends an error
C24_ClosureCheck ==
    [][ClosureStep =>
          /\ lists'.warnings = lists.warnings \o ClosureWarnings(VG)
          /\ lists'.errors = lists.errors
          /\ lists'.suggestions = lists.suggestions]_vars

\* validated drawings with 4 open vertices (warned), with 2 (not warned)
C24_Witness ==
    /\ Reported
    /\ Len(VG.edges) > 0
    /\ Cardinality(OddVertices(VG)) = 4
    /\ ReportWarnings = <<OpenBoundaryWarning(4)>>
C24_WitnessTwoOpen ==
    /\ Reported
    /\ Cardinality(OddVertices(VG)) = 2
    /\ ReportWarnings = <<>>
C24_WitnessFacesOnly ==
    /\ Reported
    /\ Len(VG.edges) = 0 /\ Len(VG.faces) > 0
    /\ ReportWarnings = <<>>
C24_WitnessNoConnectivity ==
    /\ Reported
    /\ Len(VG.edges) = 0 /\ Len(VG.faces) = 0 /\ Len(VG.vertices) > 0
    /\ ReportWarnings = <<NoConnectivityWarning>>

\* C26: the geometry is read-only once the parser has returned it. Every
\* step of the validator (each check of is_valid(), the return of the
\* report) and every call of calculate_bounds() (the one inside load() and
\* a later one by the caller) leaves the validator's geometry and the
\* loader's geometry as they were: vertices, edges, faces and metadata,
\* whether the validation passes or fails.
ValidatorRunning == vpc \in {"empty", "minsize", "planar", "closed", "selfint", "return"}
BoundsCalled == bounds' # bounds \/ bounds_call' # bounds_call
C26_GeometryReadOnly ==
    [][(ValidatorRunning \/ BoundsCalled)
          => /\ vgeom' = vgeom
             /\ geometry' = geometry]_vars

\* validation failed on a geometry with edges, and the caller then asked for
\* the bounds: the loader still holds what the parser returned
C26_Witness ==
    /\ pc = "failed"
    /\ vpc = "done"
    /\ ~IsValid(lists)
    /\ IsSome(bounds_call)
    /\ IsSome(geometry)
    /\ Len(Get(geometry).edges) > 0
    /\ vgeom = geometry
    /\ geometry = Some(Parse(Get(file)))

\* validation passed and load() returned: the result carries that geometry
C26_WitnessValid ==
    /\ pc = "returned"
    /\ IsValid(lists)
    /\ IsSome(bounds_call)
    /\ Len(Get(geometry).edges) > 0
    /\ vgeom = geometry
    /\ Get(result).geometry = Parse(Get(file))

\* C27: every closed axis-aligned rectangular boundary whose width and
\* height are both at least the antenna side, a side of exactly 25 mm
\* included, is accepted: the report is valid and holds no error
IsLargeClosedRect(geom) ==
    /\ Len(geom.vertices) = 4
    /\ IsClosedRect(geom, Width(geom), Height(geom))
    /\ Width(geom) >= Side
    /\ Height(geom) >= Side

C27_LargeRectanglesAccepted ==
    (Reported /\ IsLargeClosedRect(VG)) =>
        /\ Get(report).valid
        /\ ReportErrors = <<>>

\* what the code does: the rectangle is accepted iff both sides are longer
\* than the antenna side. With a side of exactly 25 mm the only candidate
\* centre on that axis puts two corners on the far side of the boundary,
\* which _point_in_polygon counts as outside.
RectanglesAcceptedIffLarger ==
    (Reported /\ IsLargeClosedRect(VG)) =>
        (Get(report).valid <=> (Width(VG) > Side /\ Height(VG) > Side))

ExactRectangleRejected ==
    /\ Reported
    /\ IsClosedRect(VG, Side, Side)
    /\ ~Get(report).valid
    /\ Len(ReportErrors) = 1

\* C28: a geometry without vertices is never loaded. The emptiness check
\* puts its error into every report of such a geometry, so load() gives no
\* result for it; and load() of a .vbs file, whose parser returns no
\* vertices, edges or faces whatever the script says, never returns a
\* result and fails with the empty-geometry message.
EmptyGeometryFailure == Some(LoadFailure(InvalidMessage(<<EmptyError>>)))
IsScript == Loading /\ Lower(Get(file).suffix) = VBS /\ Get(file).readable

C28_EmptyGeometryNeverLoaded ==
    /\ (Reported /\ Len(VG.vertices) = 0) =>
          /\ ~Get(report).valid
          /\ EmptyError \in Range(ReportErrors)
    /\ (Loading /\ (pc \in {"bounded", "returned"} \/ IsSome(result))) =>
          Len(Get(geometry).vertices) > 0
    /\ IsScript =>
          /\ result = None
          /\ pc \notin {"bounded", "returned"}
          /\ Load(Get(file)).failure = EmptyGeometryFailure
          /\ Load(Get(file)).result = None
          /\ IsSome(geometry) =>
                /\ Get(geometry).vertices = <<>>
                /\ Get(geometry).edges = <<>>
                /\ Get(geometry).faces = <<>>
          /\ Reported => ReportErrors = <<EmptyError>>
          /\ pc = "failed" => failure = EmptyGeometryFailure

\* a script that draws a rectangle was given, and load() has failed
C28_Witness ==
    /\ IsScript
    /\ Get(file).content \notin {"", "' ground plane"}
    /\ pc = "failed"
    /\ failure = EmptyGeometryFailure
    /\ Get(geometry).metadata[2].s = Get(file).content

\* what C29 asks of a returned result, for the result of load() in the
\* main specification (coordinates are finite numbers there)
FiniteResultWellFormed ==
    IsSome(result) =>
        LET r == Get(result)
        IN  /\ r.validation.valid
            /\ ReportErrors = <<>>
            /\ IsSome(r.bounds)
            /\ Get(r.bounds).width >= Side
            /\ Get(r.bounds).height >= Side
            /\ r.vertex_count >= 1
            /\ r.vertex_count = Len(r.geometry.vertices)
            /\ r.face_count = Len(r.geometry.faces)
            /\ r.edge_count = Len(r.geometry.edges)

FiniteResultReturned ==
    /\ IsSome(result)
    /\ Get(result).face_count > 0
    /\ Get(Get(result).bounds).width = Side

\* C30: closed loops never raise the open-boundary warning. In a geometry
\* parsed from a drawing whose entities are closed polylines and circles
\* only, in any number and sharing any vertices, every vertex is touched by
\* an even number of edge endpoints; the boundary-closure check appends no
\* open-boundary warning, and no warning at all when there are edges.
IsLoop(e) ==
    \/ e.type \in {"LWPOLYLINE", "POLYLINE"} /\ e.closed
    \/ e.type = "CIRCLE"
LoopsOnly ==
    /\ Loading
    /\ format = DXF
    /\ Get(file).readable
    /\ \A i \in DOMAIN Get(file).entities : IsLoop(Get(file).entities[i])
IsOpenBoundaryWarning(w) == w.text = OpenBoundaryWarning(0).text
ClosureChecked == vpc \in {"selfint", "return", "done"}

C30_ClosedLoopsNotWarned ==
    (LoopsOnly /\ IsSome(geometry)) =>
        LET g == Get(geometry)
        IN  /\ \A v \in 0..(Len(g.vertices) - 1) : Endpoints(g.edges, v) % 2 = 0
            /\ ClosureChecked =>
                  /\ \A i \in DOMAIN lists.warnings : ~IsOpenBoundaryWarning(lists.warnings[i])
                  /\ Len(g.edges) > 0 => lists.warnings = <<>>

\* two circles and a triangle that all pass through one vertex have been checked
C30_Witness ==
    /\ LoopsOnly
    /\ ClosureChecked
    /\ Len(Get(file).entities) = 3
    /\ Len(VG.edges) = 2 * segments + 3
    /\ Len(VG.vertices) < 2 * segments + 3
    /\ \E v \in 0..(Len(VG.vertices) - 1) : Endpoints(VG.edges, v) = 6
    /\ lists.warnings = <<>>
\* two polylines with a common side; a loop through one point twice
C30_WitnessCommonSide ==
    /\ LoopsOnly
    /\ ClosureChecked
    /\ Len(Get(file).entities) = 2
    /\ Len(VG.vertices) = 6
    /\ Len(VG.edges) = 8
    /\ lists.warnings = <<>>
C30_WitnessTwiceThrough ==
    /\ LoopsOnly
    /\ ClosureChecked
    /\ Len(Get(file).entities) = 1
    /\ Len(VG.vertices) = 5
    /\ Len(VG.edges) = 6
    /\ lists.warnings = <<>>

\* C29: every result load() returns has validation.valid true and no
\* errors, bounds that are not null with width and height of at least 25,
\* at least one vertex, and counts equal to the lengths of the lists of
\* the returned geometry
AtLeast(a, n) == ~a.nan /\ a.v >= n
MeshResultWellFormed ==
    (IsSome(mesh) /\ IsSome(ML.result)) =>
        LET r == Get(ML.result)
        IN  /\ r.validation.valid
            /\ r.validation.errors = <<>>
            /\ IsSome(r.bounds)
            /\ AtLeast(Get(r.bounds).width, antenna_size * Res)
            /\ AtLeast(Get(r.bounds).height, antenna_size * Res)
            /\ r.vertex_count >= 1
            /\ r.vertex_count = Len(r.geometry.vertices)
            /\ r.face_count = Len(r.geometry.faces)
            /\ r.edge_count = Len(r.geometry.edges)
C29_ReturnedResultWellFormed ==
    /\ FiniteResultWellFormed
    /\ MeshResultWellFormed

\* all of it but the size of the bounds holds for every float value
MeshResultWellFormedButSize ==
    (IsSome(mesh) /\ IsSome(ML.result)) =>
        LET r == Get(ML.result)
        IN  /\ r.validation.valid
            /\ r.validation.errors = <<>>
            /\ IsSome(r.bounds)
            /\ ~Less(Get(r.bounds).width, Num(antenna_size * Res))
            /\ ~Less(Get(r.bounds).height, Num(antenna_size * Res))
            /\ (~Get(r.bounds).width.nan /\ ~Get(r.bounds).height.nan)
                  => (AtLeast(Get(r.bounds).width, antenna_size * Res)
                        /\ AtLeast(Get(r.bounds).height, antenna_size * Res))
            /\ r.vertex_count >= 1
            /\ r.vertex_count = Len(r.geometry.vertices)
            /\ r.face_count = Len(r.geometry.faces)
            /\ r.edge_count = Len(r.geometry.edges)
MeshReturnedNaNWidth ==
    /\ IsSome(mesh)
    /\ IsSome(ML.result)
    /\ Get(Get(ML.result).bounds).width.nan
    /\ ~Get(Get(ML.result).bounds).height.nan

=============================================================================
